---- MODULE Spec2Model ----
(***************************************************************************)
(* Verification model of the chess-viz data pipeline                       *)
(* (src/data_processing): the PGN record splitter, the game parser, the    *)
(* movetext tokenizer and eval extraction, the accuracy engine and the     *)
(* opening-accuracy heatmap builder.                                       *)
(*                                                                         *)
(* Conventions.                                                            *)
(*  - A Python str is a sequence of one-character strings, so that         *)
(*    strip(), startswith(), find() and the regular expressions are        *)
(*    computed character by character.                                     *)
(*  - Optional[T] is a sequence of length 0 (None) or 1 (a value).         *)
(*  - A Python dict is a sequence of <<key, value>> pairs in insertion     *)
(*    order.                                                               *)
(*  - A float is a record [k, v]: k = "num" with v the value in            *)
(*    hundredths, or k \in {"inf", "nan"} for float("inf") / float("nan"). *)
(***************************************************************************)
EXTENDS Integers, Sequences, FiniteSets, TLC

\* ------------------------------------------------------------------------
\* Bounds of the model
\* ------------------------------------------------------------------------
MaxLines == 5

\* ------------------------------------------------------------------------
\* State
\* ------------------------------------------------------------------------
\* _parse_pgn_stream_zst
VARIABLES
    in_lines,        \* the decompressed text stream, one entry per line
    line_idx,        \* number of lines consumed by the for loop
    mode,            \* "search_header" | "header" | "moves"
    tags,            \* the tag dict being collected
    movetext_lines,  \* the movetext lines of the current record
    yielded,         \* the records yielded so far, in order
    split_pc         \* "loop" inside the for loop, "done" after the generator ended

splitVars == <<in_lines, line_idx, mode, tags, movetext_lines, yielded, split_pc>>

\* _extract_eval_stats, _tokenize_movetext, _extract_moves_with_eval and
\* compute_accuracy_metrics_from_moves applied to one movetext
VARIABLES
    movetext_flat,     \* the flat movetext of the record
    mv_pc,             \* control position
    eval_stats,        \* Optional result of _extract_eval_stats
    tokens,            \* result of _tokenize_movetext
    tok_idx,           \* number of tokens consumed by the extraction loop
    moves,             \* the move list
    last_move_index,   \* Optional index of the last appended move
    has_eval,          \* Optional has_eval of compute_accuracy_metrics_from_moves
    ply_idx,           \* number of moves consumed by the accuracy loop
    last_eval_by_side, \* [w, b] -> Optional float
    cp_losses,         \* [all, w, b] -> list of cp losses
    acc_per_move,      \* [all, w, b] -> running accuracy trajectories
    average_accuracy   \* [all, w, b] -> Optional final accuracy

moveVars == <<movetext_flat, mv_pc, eval_stats, tokens, tok_idx, moves, last_move_index,
              has_eval, ply_idx, last_eval_by_side, cp_losses, acc_per_move,
              average_accuracy>>

\* parse_game_headers / parse_games
VARIABLES
    gp_fn,      \* the generator that runs: "parse_game_headers" | "parse_games"
    gp_pc,      \* "loop" inside the for loop, "done" after the generator ended
    rec_count,  \* number of records taken from the splitter
    cur_rec,    \* Optional record of the current iteration
    games_out   \* the objects yielded so far, in order

gameVars == <<gp_fn, gp_pc, rec_count, cur_rec, games_out>>

\* _compute_opening_and_after_accuracy applied to one trajectory
VARIABLES
    oa_pc,             \* "call" before the call, "return" after it
    oa_acc_per_move,   \* the argument acc_per_move
    oa_opening_moves,  \* the argument opening_moves
    oa_res             \* the returned Optional pair, valid at "return"

openingVars == <<oa_pc, oa_acc_per_move, oa_opening_moves, oa_res>>

\* OpeningAccuracyHeatmapBuilder.build
VARIABLES
    hb_self,  \* the attributes set by __init__
    hb_df,    \* Optional input table [columns, height]
    hb_pc,    \* "start" | "rows" inside the row loop | "done" | "raised"
    hb_i,     \* number of rows consumed by the row loop
    hb_row,   \* Optional row of the current iteration
    agg,      \* agg[tc][bracket][opening] -> _AggCell
    hb_out,   \* Optional returned document
    hb_raised \* Optional exception that ended the call

heatVars == <<hb_self, hb_df, hb_pc, hb_i, hb_row, agg, hb_out, hb_raised>>

\* PopularityBuilder.build
VARIABLES
    pb_self,  \* the attributes set by __init__
    pb_df,    \* the input table, one record per row
    pb_pc,    \* "start" before the call, "done" after it
    pb_out    \* Optional returned document

popVars == <<pb_self, pb_df, pb_pc, pb_out>>

\* OpeningExplorerBuilder.build
VARIABLES
    ex_self,  \* the attributes set by __init__
    ex_df,    \* the input table, one record per row
    ex_pc,    \* "start" before the call, "done" or "raised" after it
    ex_out    \* Optional returned document

explorerVars == <<ex_self, ex_df, ex_pc, ex_out>>

\* builder registry (registry.py)
VARIABLES
    rg_registry,  \* _REGISTRY, a dict as a sequence of <<name, class>> pairs
    rg_log,       \* the classes passed to register_builder so far
    rg_last,      \* Optional outcome of the last call
    rg_pc         \* "ready" once the module is imported

registryVars == <<rg_registry, rg_log, rg_last, rg_pc>>

\* Parser.exportAll
VARIABLES
    xp_self,          \* the attributes set by __init__
    xp_progress,      \* the progress argument
    xp_manifest,      \* Optional lines of data/sha256sums.txt
    xp_input,         \* the games parse_games yields, in order
    xp_pos,           \* how many of them were taken
    xp_rows,          \* rows
    xp_parsed_total,  \* parsed_total
    xp_kept_total,    \* kept_total
    xp_bytes_read,    \* bytes_read
    xp_printed,       \* the number of progress lines written to stderr
    xp_file,          \* Optional content of out_path
    xp_pc             \* "start", "loop", "write", "writing", "done" or "failed"

exportVars == <<xp_self, xp_progress, xp_manifest, xp_input, xp_pos, xp_rows, xp_parsed_total, xp_kept_total, xp_bytes_read, xp_printed, xp_file, xp_pc>>

\* main() of main.py
VARIABLES
    cli_args,      \* the parsed command line
    cli_exists,    \* whether the resolved .pgn.zst file exists
    cli_manifest,  \* Optional lines of data/sha256sums.txt
    cli_input,     \* the games parse_games yields, in order
    cli_taken,     \* how many of them were pulled
    cli_shown,     \* the games printed to stdout
    cli_stderr,    \* the messages of the sha check on stderr
    cli_exit,      \* Optional exit code of the process
    cli_pc         \* "start", "verify", "games" or "exited"

cliVars == <<cli_args, cli_exists, cli_manifest, cli_input, cli_taken, cli_shown, cli_stderr, cli_exit, cli_pc>>

\* normalize_time_control_bucket (game_helpers.py)
VARIABLES
    tc_raw,  \* the time_control_raw argument, an Optional string
    tc_pc,   \* position in the call
    tc_out   \* the returned bucket, an Optional

tcVars == <<tc_raw, tc_pc, tc_out>>

\* _bin_index_10 (opening_accuracy_heatmap_builder.py)
VARIABLES
    bn_v,    \* the accuracies the bins are asked for, in ascending order
    bn_pc,   \* position in the calls
    bn_out   \* the bin indices returned so far

binVars == <<bn_v, bn_pc, bn_out>>

\* _tokenize_movetext, one loop iteration at a time (pgn_reader.py)
VARIABLES
    tz_text,    \* the movetext_flat argument
    tz_i,       \* the scan index i, 0-based as in the code
    tz_tokens,  \* the tokens list
    tz_pc       \* position in the call

tzVars == <<tz_text, tz_i, tz_tokens, tz_pc>>

vars == <<splitVars, moveVars, gameVars, openingVars, heatVars, popVars, explorerVars, registryVars, exportVars, cliVars, tcVars, binVars, tzVars>>

SplitIdle ==
    /\ in_lines = << >> /\ line_idx = 0 /\ mode = "search_header" /\ tags = << >>
    /\ movetext_lines = << >> /\ yielded = << >> /\ split_pc = "idle"

GamesIdle ==
    /\ gp_fn = "none" /\ gp_pc = "idle" /\ rec_count = 0 /\ cur_rec = << >>
    /\ games_out = << >>

OpeningIdle ==
    /\ oa_pc = "idle" /\ oa_acc_per_move = << >> /\ oa_opening_moves = 0 /\ oa_res = << >>

HeatIdle ==
    /\ hb_self = << >> /\ hb_df = << >> /\ hb_pc = "idle" /\ hb_i = 0 /\ hb_row = << >>
    /\ agg = << >> /\ hb_out = << >> /\ hb_raised = << >>

PopIdle ==
    /\ pb_self = << >> /\ pb_df = << >> /\ pb_pc = "idle" /\ pb_out = << >>

ExplorerIdle ==
    ex_self = << >> /\ ex_df = << >> /\ ex_pc = "idle" /\ ex_out = << >>

RegistryIdle ==
    rg_registry = << >> /\ rg_log = << >> /\ rg_last = << >> /\ rg_pc = "idle"

ExportIdle ==
    xp_self = << >> /\ xp_progress = << >> /\ xp_manifest = << >> /\ xp_input = << >> /\ xp_pos = << >> /\ xp_rows = << >> /\ xp_parsed_total = << >> /\ xp_kept_total = << >> /\ xp_bytes_read = << >> /\ xp_printed = << >> /\ xp_file = << >> /\ xp_pc = "idle"

CliIdle ==
    cli_args = << >> /\ cli_exists = << >> /\ cli_manifest = << >> /\ cli_input = << >> /\ cli_taken = << >> /\ cli_shown = << >> /\ cli_stderr = << >> /\ cli_exit = << >> /\ cli_pc = "idle"

TcIdle ==
    tc_raw = << >> /\ tc_pc = "idle" /\ tc_out = << >>

BinIdle ==
    bn_v = << >> /\ bn_pc = "idle" /\ bn_out = << >>

TzIdle ==
    tz_text = << >> /\ tz_i = << >> /\ tz_tokens = << >> /\ tz_pc = "idle"

MovesIdle ==
    /\ movetext_flat = << >> /\ mv_pc = "idle" /\ eval_stats = << >> /\ tokens = << >>
    /\ tok_idx = 0 /\ moves = << >> /\ last_move_index = << >> /\ has_eval = << >>
    /\ ply_idx = 0
    /\ last_eval_by_side = [w |-> << >>, b |-> << >>]
    /\ cp_losses = [all |-> << >>, w |-> << >>, b |-> << >>]
    /\ acc_per_move = [all |-> << >>, w |-> << >>, b |-> << >>]
    /\ average_accuracy = [all |-> << >>, w |-> << >>, b |-> << >>]

\* ------------------------------------------------------------------------
\* Generic helpers
\* ------------------------------------------------------------------------
None == << >>

Some(x) == << x >>

IsNone(o) == Len(o) = 0

Val(o) == o[1]

MinOf(S) == CHOOSE m \in S : \A k \in S : m <= k

MaxOf(S) == CHOOSE m \in S : \A k \in S : m >= k

BSeq(S, n) == UNION { [1..k -> S] : k \in 0..n }

RECURSIVE Flatten(_)
Flatten(ss) == IF ss = << >> THEN << >> ELSE Head(ss) \o Flatten(Tail(ss))

\* str.isspace() on one character
IsSpace(c) == c \in {" ", "\t", "\r"}

UpperLetters == {"A","B","C","D","E","F","G","H","I","J","K","L","M",
                 "N","O","P","Q","R","S","T","U","V","W","X","Y","Z"}

LowerLetters == {"a","b","c","d","e","f","g","h","i","j","k","l","m",
                 "n","o","p","q","r","s","t","u","v","w","x","y","z"}

Digits == {"0","1","2","3","4","5","6","7","8","9"}

\* the regular-expression class \w on one character
IsWord(c) == c \in UpperLetters \cup LowerLetters \cup Digits \cup {"_"}

\* str.strip()
Strip(s) ==
    LET nz == { i \in 1..Len(s) : ~IsSpace(s[i]) }
    IN  IF nz = {} THEN << >> ELSE SubSeq(s, MinOf(nz), MaxOf(nz))

\* str.rstrip()
RStrip(s) ==
    LET nz == { i \in 1..Len(s) : ~IsSpace(s[i]) }
    IN  IF nz = {} THEN << >> ELSE SubSeq(s, 1, MaxOf(nz))

\* str.startswith(p)
StartsWith(s, p) == Len(s) >= Len(p) /\ SubSeq(s, 1, Len(p)) = p

\* sep.join(parts)
RECURSIVE Join(_, _)
Join(sep, parts) ==
    IF parts = << >> THEN << >>
    ELSE IF Len(parts) = 1 THEN parts[1]
    ELSE parts[1] \o sep \o Join(sep, Tail(parts))

\* dict.get(k) as an Optional
DictGet(d, k) ==
    LET hit == { i \in 1..Len(d) : d[i][1] = k }
    IN  IF hit = {} THEN None ELSE Some(d[MinOf(hit)][2])

\* d[k] = v : replaces the value in place, or appends a new key
DictSet(d, k, v) ==
    LET hit == { i \in 1..Len(d) : d[i][1] = k }
    IN  IF hit = {} THEN Append(d, <<k, v>>)
        ELSE [d EXCEPT ![MinOf(hit)] = <<k, v>>]

\* ------------------------------------------------------------------------
\* PGN record splitter : _parse_pgn_stream_zst
\* ------------------------------------------------------------------------
\* TAG_RE = ^\[(\w+)\s+"(.*)"\]$  applied to line.strip(); the result is
\* None or Some(<<key, value>>).  \w and \s are disjoint, so the greedy
\* key and blank runs are the maximal ones; (.*) is greedy up to the last
\* quote, which must be followed by the closing bracket at the very end.
TAG_RE_match(s) ==
    LET n    == Len(s)
        nonw == { i \in 2..n : ~IsWord(s[i]) }
        ke   == IF nonw = {} THEN n ELSE MinOf(nonw) - 1
        nons == { i \in (ke + 1)..n : ~IsSpace(s[i]) }
        se   == IF nons = {} THEN n ELSE MinOf(nons) - 1
    IN  IF /\ n >= 1
           /\ s[1] = "["
           /\ ke >= 2
           /\ se >= ke + 1
           /\ se + 1 <= n
           /\ s[se + 1] = "\""
           /\ n - 1 > se + 1
           /\ s[n - 1] = "\""
           /\ s[n] = "]"
        THEN Some(<<SubSeq(s, 2, ke), SubSeq(s, se + 2, n - 2)>>)
        ELSE None

\* movetext_flat = " ".join(s.strip() for s in movetext_lines if s.strip())
FlatMovetext(ml) ==
    Join(<<" ">>, SelectSeq([i \in 1..Len(ml) |-> Strip(ml[i])],
                            LAMBDA s : s # << >>))

\* movetext_raw = "\n".join(movetext_lines)
RawMovetext(ml) == Join(<<"\n">>, ml)

\* the triple yielded for one record
RecordOf(t, ml) == [tags |-> t, flat |-> FlatMovetext(ml), raw |-> RawMovetext(ml)]

\* Lines the splitter is fed with (the line terminator is already removed
\* by line.rstrip("\n")).
Line_TagA1   == <<"[", "A", " ", "\"", "x", "\"", "]">>
Line_TagA2   == <<"[", "A", " ", "\"", "y", "\"", "]", " ">>
Line_TagB    == <<"[", "B", " ", "\"", "x", "\"", "]">>
Line_BadTag  == <<"[", "A", " ", "x", "]">>
Line_Empty   == << >>
Line_Blank   == <<" ">>
Line_Move1   == <<"e", "4">>
Line_Move2   == <<" ", "e", "5", " ">>

LineSet ==
    { Line_TagA1, Line_TagA2, Line_TagB, Line_BadTag,
      Line_Empty, Line_Blank, Line_Move1, Line_Move2 }

splitOthers == <<moveVars, gameVars, openingVars, heatVars, popVars, explorerVars, registryVars, exportVars, cliVars, tcVars, binVars, tzVars>>

CurLine == in_lines[line_idx + 1]

SplitInit ==
    /\ in_lines \in BSeq(LineSet, MaxLines)
    /\ line_idx = 0
    /\ mode = "search_header"
    /\ tags = << >>
    /\ movetext_lines = << >>
    /\ yielded = << >>
    /\ split_pc = "loop"
    /\ MovesIdle /\ GamesIdle /\ OpeningIdle /\ HeatIdle /\ PopIdle /\ ExplorerIdle /\ RegistryIdle /\ ExportIdle /\ CliIdle /\ TcIdle /\ BinIdle /\ TzIdle

InHeaderModes == mode \in {"search_header", "header"}

HasLine == split_pc = "loop" /\ line_idx < Len(in_lines)

\* mutant of TagsAfterTagLine: a tag line that does not match empties the
\* tag map
TagsAfterTagLine_Mut(t, line) ==
    LET m == TAG_RE_match(Strip(line))
    IN  IF IsNone(m) THEN << >> ELSE DictSet(t, Val(m)[1], Val(m)[2])

\* tags after a line starting with "[" was read in a header mode
TagsAfterTagLine(t, line) ==
    LET m == TAG_RE_match(Strip(line))
    IN  IF IsNone(m) THEN t ELSE DictSet(t, Val(m)[1], Val(m)[2])

\* line.startswith("[") in search_header / header
HeaderTagLine ==
    /\ HasLine /\ InHeaderModes
    /\ StartsWith(CurLine, <<"[">>)
    /\ mode' = "header"
    /\ tags' = TagsAfterTagLine(tags, CurLine)
    /\ line_idx' = line_idx + 1
    /\ UNCHANGED <<in_lines, movetext_lines, yielded, split_pc>>
    /\ UNCHANGED splitOthers

\* mutant of HeaderBlankLine: a blank line between tag blocks empties the
\* tag map
HeaderBlankLine_Mut ==
    /\ HasLine /\ InHeaderModes
    /\ ~StartsWith(CurLine, <<"[">>)
    /\ Strip(CurLine) = << >>
    /\ tags' = << >>
    /\ line_idx' = line_idx + 1
    /\ UNCHANGED <<in_lines, mode, movetext_lines, yielded, split_pc>>
    /\ UNCHANGED splitOthers

\* line.strip() == "" in search_header / header : continue
HeaderBlankLine ==
    /\ HasLine /\ InHeaderModes
    /\ ~StartsWith(CurLine, <<"[">>)
    /\ Strip(CurLine) = << >>
    /\ line_idx' = line_idx + 1
    /\ UNCHANGED <<in_lines, mode, tags, movetext_lines, yielded, split_pc>>
    /\ UNCHANGED splitOthers

\* first non-tag, non-empty line : movetext begins
HeaderBeginMoves ==
    /\ HasLine /\ InHeaderModes
    /\ ~StartsWith(CurLine, <<"[">>)
    /\ Strip(CurLine) # << >>
    /\ movetext_lines' = <<RStrip(CurLine)>>
    /\ mode' = "moves"
    /\ line_idx' = line_idx + 1
    /\ UNCHANGED <<in_lines, tags, yielded, split_pc>>
    /\ UNCHANGED splitOthers

\* what a blank line in moves mode yields
YieldPending(y, t, ml) == IF t # << >> THEN Append(y, RecordOf(t, ml)) ELSE y

\* blank line in moves mode : the record ends
MovesBlankLine ==
    /\ HasLine /\ mode = "moves"
    /\ Strip(CurLine) = << >>
    /\ yielded' = YieldPending(yielded, tags, movetext_lines)
    /\ tags' = << >>
    /\ movetext_lines' = << >>
    /\ mode' = "search_header"
    /\ line_idx' = line_idx + 1
    /\ UNCHANGED <<in_lines, split_pc>>
    /\ UNCHANGED splitOthers

\* any other line in moves mode is appended to the movetext
MovesAppendLine ==
    /\ HasLine /\ mode = "moves"
    /\ Strip(CurLine) # << >>
    /\ movetext_lines' = Append(movetext_lines, RStrip(CurLine))
    /\ line_idx' = line_idx + 1
    /\ UNCHANGED <<in_lines, mode, tags, yielded, split_pc>>
    /\ UNCHANGED splitOthers

\* mutant of YieldAtEnd: the pending record is lost at the end of input
YieldAtEnd_Mut(y, md, t, ml) == y

\* what the code after the loop yields
YieldAtEnd(y, md, t, ml) ==
    IF md = "moves" /\ t # << >> THEN Append(y, RecordOf(t, ml)) ELSE y

\* the for loop is exhausted : handle the last game
EndOfInput ==
    /\ split_pc = "loop" /\ line_idx = Len(in_lines)
    /\ yielded' = YieldAtEnd(yielded, mode, tags, movetext_lines)
    /\ split_pc' = "done"
    /\ UNCHANGED <<in_lines, line_idx, mode, tags, movetext_lines>>
    /\ UNCHANGED splitOthers

SplitNext ==
    \/ HeaderTagLine
    \/ HeaderBlankLine
    \/ HeaderBeginMoves
    \/ MovesBlankLine
    \/ MovesAppendLine
    \/ EndOfInput

SpecSplit == SplitInit /\ [][SplitNext]_vars

\* C1: a movetext block is yielded exactly once, as (tags, flat, raw), by the
\* step that reads the first blank line in moves mode or by the end of input
\* reached in moves mode, and only when the tag map is non-empty; records are
\* appended in input order; no other step yields; the tag map cannot change
\* while in moves mode; after a blank line in moves mode the splitter is in
\* search_header with an empty tag map and an empty movetext list.
C1_BlankInMoves == HasLine /\ mode = "moves" /\ Strip(CurLine) = << >>

C1_EndInMoves == split_pc = "loop" /\ line_idx = Len(in_lines) /\ mode = "moves"

C1_Step ==
    /\ C1_BlankInMoves =>
          /\ mode' = "search_header" /\ tags' = << >> /\ movetext_lines' = << >>
          /\ yielded' = IF tags # << >>
                        THEN Append(yielded, RecordOf(tags, movetext_lines))
                        ELSE yielded
    /\ C1_EndInMoves =>
          /\ split_pc' = "done"
          /\ yielded' = IF tags # << >>
                        THEN Append(yielded, RecordOf(tags, movetext_lines))
                        ELSE yielded
    /\ ~(C1_BlankInMoves \/ C1_EndInMoves) => yielded' = yielded
    /\ (mode = "moves" /\ mode' = "moves") => tags' = tags
    /\ split_pc = "done" => yielded' = yielded

C1_SplitterYieldsEachRecordOnce == [][C1_Step]_vars

\* two records were yielded, the first at a blank line, the second at the
\* end of input
C1_Witness ==
    /\ split_pc = "done" /\ mode = "moves" /\ tags # << >>
    /\ Len(yielded) = 2
    /\ yielded[2] = RecordOf(tags, movetext_lines)
    /\ yielded[1].tags # yielded[2].tags

\* ------------------------------------------------------------------------
\* Movetext tokenizer and eval extraction (pgn_reader.py)
\* ------------------------------------------------------------------------
\* One iteration of the while loop of _tokenize_movetext at 1-based scan
\* position i: the token appended (if any) and the next scan position.
TokStep(t, i) ==
    LET n == Len(t)
    IN  IF IsSpace(t[i]) THEN [emit |-> None, i |-> i + 1]
        ELSE IF t[i] = "{" THEN
            LET close == { k \in (i + 1)..n : t[k] = "}" }
                \* find() returned -1 : j = n - 1, the last character
                j == IF close = {} THEN n ELSE MinOf(close)
            IN  [emit |-> Some(<<"COMMENT", SubSeq(t, i + 1, j - 1)>>), i |-> j + 1]
        ELSE
            LET stop == { k \in i..n : IsSpace(t[k]) \/ t[k] = "{" }
                j == IF stop = {} THEN n + 1 ELSE MinOf(stop)
            IN  [emit |-> Some(<<"TOKEN", SubSeq(t, i, j - 1)>>), i |-> j]

RECURSIVE TokenizeFrom(_, _)
TokenizeFrom(t, i) ==
    IF i > Len(t) THEN << >>
    ELSE LET r == TokStep(t, i)
         IN  r.emit \o TokenizeFrom(t, r.i)

_tokenize_movetext(t) == TokenizeFrom(t, 1)

\* needle in haystack
Contains(s, p) == \E i \in 1..(Len(s) - Len(p) + 1) : SubSeq(s, i, i + Len(p) - 1) = p

EvalMarker == <<"[", "%", "e", "v", "a", "l">>

\* EVAL_RE = \[%eval\s+([^\]]+)\]  : EVAL_RE.search(s) as Optional group(1).
\* At a start p the match needs "[%eval", one or more blanks, one or more
\* characters other than "]", then "]"; the blank run backtracks by one
\* character when nothing but blanks precedes the "]".
EVAL_RE_search(s) ==
    LET n == Len(s)
        rbAfter(p) == { k \in (p + 6)..n : s[k] = "]" }
        ok(p) == /\ p + 5 <= n
                 /\ SubSeq(s, p, p + 5) = EvalMarker
                 /\ rbAfter(p) # {}
                 /\ MinOf(rbAfter(p)) - (p + 6) >= 2
                 /\ IsSpace(s[p + 6])
        hits == { p \in 1..n : ok(p) }
    IN  IF hits = {} THEN None
        ELSE LET p  == MinOf(hits)
                 c  == SubSeq(s, p + 6, MinOf(rbAfter(p)) - 1)
                 nz == { k \in 1..Len(c) : ~IsSpace(c[k]) }
             IN  IF nz = {} THEN Some(<<c[Len(c)]>>)
                 ELSE Some(SubSeq(c, MinOf(nz), Len(c)))

DigitVal(c) ==
    CASE c = "0" -> 0 [] c = "1" -> 1 [] c = "2" -> 2 [] c = "3" -> 3 [] c = "4" -> 4
      [] c = "5" -> 5 [] c = "6" -> 6 [] c = "7" -> 7 [] c = "8" -> 8 [] c = "9" -> 9

AllDigits(s) == \A i \in 1..Len(s) : s[i] \in Digits

RECURSIVE DigitsToInt(_)
DigitsToInt(s) ==
    IF s = << >> THEN 0 ELSE 10 * DigitsToInt(SubSeq(s, 1, Len(s) - 1)) + DigitVal(s[Len(s)])

\* floats: a finite value is kept in hundredths
FNum(v) == [k |-> "num", v |-> v]

FInf(sign) == [k |-> "inf", v |-> sign]

FNan == [k |-> "nan", v |-> 0]

\* float(s) on an already stripped string, as an Optional (None stands for
\* ValueError).  Accepted here: an optional sign followed by inf, nan, or a
\* decimal with at most one "." and at least one digit; digits after the
\* second decimal place are dropped.  (Exponents and "_" are outside the
\* alphabet of the model.)
ParseFloat(s) ==
    LET signed == Len(s) >= 1 /\ s[1] \in {"+", "-"}
        sign   == IF signed /\ s[1] = "-" THEN -1 ELSE 1
        body   == IF signed THEN SubSeq(s, 2, Len(s)) ELSE s
        dots   == { i \in 1..Len(body) : body[i] = "." }
        ip     == IF dots = {} THEN body ELSE SubSeq(body, 1, MinOf(dots) - 1)
        fp     == IF dots = {} THEN << >> ELSE SubSeq(body, MinOf(dots) + 1, Len(body))
        fp2    == SubSeq(fp \o <<"0", "0">>, 1, 2)
    IN  IF body \in {<<"i", "n", "f">>, <<"i", "n", "f", "i", "n", "i", "t", "y">>} THEN Some(FInf(sign))
        ELSE IF body = <<"n", "a", "n">> THEN Some(FNan)
        ELSE IF /\ Cardinality(dots) <= 1
                /\ AllDigits(ip) /\ AllDigits(fp)
                /\ Len(ip) + Len(fp) >= 1
             THEN Some(FNum(sign * (100 * DigitsToInt(ip) + DigitsToInt(fp2))))
             ELSE None

\* mutant of _parse_eval_value: a mate score "#N" is read as the number N
_parse_eval_value_Mut(raw) ==
    LET s == Strip(raw)
    IN  IF StartsWith(s, <<"#">>) THEN ParseFloat(SubSeq(s, 2, Len(s))) ELSE ParseFloat(s)

_parse_eval_value(raw) ==
    LET s == Strip(raw)
    IN  IF StartsWith(s, <<"#">>) THEN None ELSE ParseFloat(s)

ResultMarkers == { <<"1", "-", "0">>, <<"0", "-", "1">>, <<"1", "/", "2", "-", "1", "/", "2">>, <<"*">> }

\* re.fullmatch(r"\d+\.+", tok)
IsMoveNumber(tok) ==
    LET nd == { i \in 1..Len(tok) : tok[i] \notin Digits }
    IN  /\ nd # {}
        /\ MinOf(nd) >= 2
        /\ \A i \in MinOf(nd)..Len(tok) : tok[i] = "."

\* mutant of IsSkippedToken: a NAG is not skipped
IsSkippedToken_Mut(tok) ==
    \/ tok \in ResultMarkers
    \/ IsMoveNumber(tok)

\* the three "continue" filters on a TOKEN
IsSkippedToken(tok) ==
    \/ tok \in ResultMarkers
    \/ IsMoveNumber(tok)
    \/ StartsWith(tok, <<"$">>)

\* the annotation symbols, longest first, and the one a token ends with
AnnotationSymbols == << <<"?", "?">>, <<"?", "!">>, <<"!", "?">>, <<"!", "!">>, <<"!">>, <<"?">> >>

EndsWith(s, p) == Len(s) >= Len(p) /\ SubSeq(s, Len(s) - Len(p) + 1, Len(s)) = p

AnnotationSuffix(tok) ==
    LET hit == { i \in 1..Len(AnnotationSymbols) : EndsWith(tok, AnnotationSymbols[i]) }
    IN  IF hit = {} THEN << >> ELSE AnnotationSymbols[MinOf(hit)]

\* mutant of MoveOf: the trailing annotation symbol is cut off the token
MoveOf_Mut(tok) ==
    [move |-> SubSeq(tok, 1, Len(tok) - Len(AnnotationSuffix(tok))), eval |-> None]

\* moves.append({"move": tok, "eval": None})
MoveOf(tok) == [move |-> tok, eval |-> None]

\* mutant of ExtractStep: the eval of a comment goes to the first move
ExtractStep_Mut(st, tk) ==
    IF tk[1] = "TOKEN" THEN
        IF IsSkippedToken(tk[2]) THEN st
        ELSE [moves |-> Append(st.moves, MoveOf(tk[2])),
              last_move_index |-> Some(Len(st.moves) + 1)]
    ELSE
        IF IsNone(st.last_move_index) THEN st
        ELSE LET m == EVAL_RE_search(tk[2])
             IN  IF IsNone(m) THEN st
                 ELSE [st EXCEPT !.moves[1].eval = _parse_eval_value(Val(m))]

\* One iteration of the for loop of _extract_moves_with_eval on the state
\* st = [moves, last_move_index] and the token tk = <<kind, val>>.
ExtractStep(st, tk) ==
    IF tk[1] = "TOKEN" THEN
        IF IsSkippedToken(tk[2]) THEN st
        ELSE [moves |-> Append(st.moves, MoveOf(tk[2])),
              last_move_index |-> Some(Len(st.moves) + 1)]
    ELSE
        IF IsNone(st.last_move_index) THEN st
        ELSE LET m == EVAL_RE_search(tk[2])
             IN  IF IsNone(m) THEN st
                 ELSE [st EXCEPT !.moves[Val(st.last_move_index)].eval =
                                       _parse_eval_value(Val(m))]

RECURSIVE ExtractFold(_, _)
ExtractFold(st, tks) ==
    IF tks = << >> THEN st ELSE ExtractFold(ExtractStep(st, Head(tks)), Tail(tks))

_extract_moves_with_eval(t) ==
    ExtractFold([moves |-> << >>, last_move_index |-> None], _tokenize_movetext(t)).moves

\* One iteration of the for loop of _extract_eval_stats on the state
\* st = [evals_w, evals_b, side_to_move, last_mover].
EvalStatsStep(st, tk) ==
    IF tk[1] = "COMMENT" THEN
        LET m == EVAL_RE_search(tk[2])
        IN  IF IsNone(m) \/ IsNone(st.last_mover) THEN st
            ELSE LET ev == _parse_eval_value(Val(m))
                 IN  IF IsNone(ev) THEN st
                     ELSE IF Val(st.last_mover) = "w"
                          THEN [st EXCEPT !.evals_w = Append(@, Val(ev))]
                          ELSE [st EXCEPT !.evals_b = Append(@, Val(ev))]
    ELSE
        IF IsSkippedToken(tk[2]) THEN st
        ELSE [st EXCEPT !.last_mover = Some(st.side_to_move),
                        !.side_to_move = IF st.side_to_move = "w" THEN "b" ELSE "w"]

RECURSIVE EvalStatsFold(_, _)
EvalStatsFold(st, tks) ==
    IF tks = << >> THEN st ELSE EvalStatsFold(EvalStatsStep(st, Head(tks)), Tail(tks))

\* abs(a - b) * 100.0 on floats: the cp loss, a float record whose finite
\* value is in centipawns (hundredths of a pawn)
CpLoss(a, b) ==
    IF a.k = "nan" \/ b.k = "nan" THEN FNan
    ELSE IF a.k = "inf" /\ b.k = "inf" THEN (IF a.v = b.v THEN FNan ELSE FInf(1))
    ELSE IF a.k = "inf" \/ b.k = "inf" THEN FInf(1)
    ELSE FNum(IF a.v >= b.v THEN a.v - b.v ELSE b.v - a.v)

\* sum(xs) of non-negative float records
RECURSIVE FSum(_)
FSum(xs) ==
    IF xs = << >> THEN FNum(0)
    ELSE LET r == FSum(Tail(xs))
             h == Head(xs)
         IN  IF h.k = "nan" \/ r.k = "nan" THEN FNan
             ELSE IF h.k = "inf" \/ r.k = "inf" THEN FInf(1)
             ELSE FNum(h.v + r.v)

\* sum(xs) / len(xs) : a mean, kept as the pair (sum, count)
MeanOf(xs) == [sum |-> FSum(xs), n |-> Len(xs)]

\* average_cp_loss(evals) inside _extract_eval_stats, as an Optional
average_cp_loss(evals) ==
    IF Len(evals) < 2 THEN None
    ELSE Some(MeanOf([i \in 1..(Len(evals) - 1) |-> CpLoss(evals[i + 1], evals[i])]))

\* _extract_eval_stats(movetext_flat) = (has_eval, acpl_w, acpl_b)
_extract_eval_stats(t) ==
    IF ~Contains(t, EvalMarker) THEN <<FALSE, None, None>>
    ELSE LET st == EvalStatsFold([evals_w |-> << >>, evals_b |-> << >>,
                                  side_to_move |-> "w", last_mover |-> None],
                                 _tokenize_movetext(t))
         IN  <<(st.evals_w # << >> \/ st.evals_b # << >>),
               average_cp_loss(st.evals_w), average_cp_loss(st.evals_b)>>

\* ------------------------------------------------------------------------
\* Accuracy engine (game_helpers.py)
\* ------------------------------------------------------------------------
\* accuracy_from_avg_cp_loss: round(100 * exp(-avg / 100), 2).  The
\* exponential is not evaluated: the accuracy is the float record
\* [k |-> "acc", v |-> avg] that names the mean it was computed from.
accuracy_from_avg_cp_loss(avg) ==
    IF IsNone(avg) THEN None ELSE Some([k |-> "acc", v |-> Val(avg)])

\* x or 0.0 for an Optional accuracy x (an accuracy record is never the
\* falsy float 0.0 except when it rounds to it, and then 0.0 or 0.0 = 0.0)
OrZero(x) == IF IsNone(x) THEN Some(FNum(0)) ELSE x

\* has_eval = any(m.get("eval") is not None for m in moves)
AnyEval(ms) == \E i \in 1..Len(ms) : ~IsNone(ms[i].eval)

\* mutant of SideOf: every ply is counted for White
SideOf_Mut(i0) == "w"

\* side = "w" if ply_idx % 2 == 0 else "b"
SideOf(i0) == IF i0 % 2 = 0 THEN "w" ELSE "b"

AccInitState ==
    [last |-> [w |-> None, b |-> None],
     cp   |-> [all |-> << >>, w |-> << >>, b |-> << >>],
     acc  |-> [all |-> << >>, w |-> << >>, b |-> << >>]]

\* mutant of AccStep: the first eval of a side already appends (a loss of 0
\* against itself)
AccStep_Mut(st, i0, m) ==
    LET side == SideOf(i0)
        ev   == m.eval
    IN  IF IsNone(ev) THEN st
        ELSE LET prev == IF IsNone(st.last[side]) THEN ev ELSE st.last[side]
                 cp   == CpLoss(Val(ev), Val(prev))
                 all2 == Append(st.cp.all, cp)
                 sid2 == Append(st.cp[side], cp)
             IN  [last |-> [st.last EXCEPT ![side] = ev],
                  cp   |-> [st.cp EXCEPT !.all = all2, ![side] = sid2],
                  acc  |-> [st.acc EXCEPT
                              !.all = Append(@, OrZero(accuracy_from_avg_cp_loss(Some(MeanOf(all2))))),
                              ![side] = Append(@, OrZero(accuracy_from_avg_cp_loss(Some(MeanOf(sid2)))))]]

\* One iteration of the for loop of compute_accuracy_metrics_from_moves on
\* st = [last, cp, acc], the 0-based ply index i0 and the move m.
AccStep(st, i0, m) ==
    LET side == SideOf(i0)
        ev   == m.eval
    IN  IF IsNone(ev) THEN st
        ELSE LET prev == st.last[side]
                 st1  == [st EXCEPT !.last[side] = ev]
             IN  IF IsNone(prev) THEN st1
                 ELSE LET cp   == CpLoss(Val(ev), Val(prev))
                          all2 == Append(st.cp.all, cp)
                          sid2 == Append(st.cp[side], cp)
                      IN  [last |-> st1.last,
                           cp   |-> [st.cp EXCEPT !.all = all2, ![side] = sid2],
                           acc  |-> [st.acc EXCEPT
                                       !.all = Append(@, OrZero(accuracy_from_avg_cp_loss(Some(MeanOf(all2))))),
                                       ![side] = Append(@, OrZero(accuracy_from_avg_cp_loss(Some(MeanOf(sid2)))))]]

\* the final scalar of one cp-loss list
FinalAccuracy(cps) ==
    IF cps = << >> THEN None ELSE accuracy_from_avg_cp_loss(Some(MeanOf(cps)))

\* ------------------------------------------------------------------------
\* One movetext through _extract_eval_stats, _extract_moves_with_eval and
\* compute_accuracy_metrics_from_moves
\* ------------------------------------------------------------------------
MaxChunks == 3

MaxPlies == 5

Chunk_e4      == <<"e", "4", " ">>
Chunk_Nf3     == <<"N", "f", "3", "?", "!", " ">>
Chunk_Number  == <<"1", ".", " ">>
Chunk_Nag     == <<"$", "1", " ">>
Chunk_Result  == <<"1", "-", "0", " ">>
Chunk_Eval03  == <<"{", " ", "[", "%", "e", "v", "a", "l", " ", "0", ".", "3", "]", " ", "}", " ">>
Chunk_Eval01  == <<"{", "[", "%", "e", "v", "a", "l", " ", "-", "0", ".", "1", "]", "}">>
Chunk_Mate    == <<"{", " ", "[", "%", "e", "v", "a", "l", " ", "#", "3", "]", " ", "}", " ">>
Chunk_Plain   == <<"{", "x", "}", " ">>
Chunk_Nan     == <<"{", "[", "%", "e", "v", "a", "l", " ", "n", "a", "n", "]", "}", " ">>
Chunk_Open    == <<"{", " ", "[", "%", "e", "v", "a", "l", " ", "0", ".", "2", "]", " ", "x">>

ChunkSet ==
    { Chunk_e4, Chunk_Nf3, Chunk_Number, Chunk_Nag, Chunk_Result, Chunk_Eval03,
      Chunk_Eval01, Chunk_Mate, Chunk_Plain, Chunk_Nan, Chunk_Open }

\* scenario 1 of the specification
Scenario1Movetext ==
    <<"1", ".", " ", "e", "4", " ", "{", " ", "[", "%", "e", "v", "a", "l", " ", "0", ".", "3", "]", " ", "}", " ", "e", "5", " ", "{", " ", "[", "%", "e", "v", "a", "l", " ", "0", ".", "1", "]", " ", "}", " ", "2", ".", " ", "N", "f", "3", " ", "{", " ", "[", "%", "e", "v", "a", "l", " ", "0", ".", "2", "]", " ", "}", " ", "1", "-", "0">>

MovetextSet == { Flatten(cs) : cs \in BSeq(ChunkSet, MaxChunks) } \cup { Scenario1Movetext }

\* move lists handed directly to compute_accuracy_metrics_from_moves
EvalSet == { None, Some(FNum(30)), Some(FNum(10)), Some(FNan) }

MoveSet == { [move |-> <<"e", "4">>, eval |-> e] : e \in EvalSet }

moveOthers == <<splitVars, gameVars, openingVars, heatVars, popVars, explorerVars, registryVars, exportVars, cliVars, tcVars, binVars, tzVars>>

MovesInit ==
    /\ SplitIdle /\ GamesIdle /\ OpeningIdle /\ HeatIdle /\ PopIdle /\ ExplorerIdle /\ RegistryIdle /\ ExportIdle /\ CliIdle /\ TcIdle /\ BinIdle /\ TzIdle
    /\ eval_stats = None /\ tokens = << >> /\ tok_idx = 0
    /\ last_move_index = None /\ has_eval = None /\ ply_idx = 0
    /\ last_eval_by_side = AccInitState.last
    /\ cp_losses = AccInitState.cp
    /\ acc_per_move = AccInitState.acc
    /\ average_accuracy = [all |-> None, w |-> None, b |-> None]
    /\ \/ /\ movetext_flat \in MovetextSet
          /\ moves = << >>
          /\ mv_pc = "stats"
       \/ /\ movetext_flat = << >>
          /\ moves \in BSeq(MoveSet, MaxPlies)
          /\ mv_pc = "metrics"

\* has_eval, acpl_w, acpl_b = _extract_eval_stats(movetext_flat)
EvalStats ==
    /\ mv_pc = "stats"
    /\ eval_stats' = Some(_extract_eval_stats(movetext_flat))
    /\ mv_pc' = "tokenize"
    /\ UNCHANGED <<movetext_flat, tokens, tok_idx, moves, last_move_index, has_eval,
                   ply_idx, last_eval_by_side, cp_losses, acc_per_move, average_accuracy>>
    /\ UNCHANGED moveOthers

\* _extract_moves_with_eval: tokens = _tokenize_movetext(movetext_flat)
Tokenize ==
    /\ mv_pc = "tokenize"
    /\ tokens' = _tokenize_movetext(movetext_flat)
    /\ tok_idx' = 0
    /\ moves' = << >>
    /\ last_move_index' = None
    /\ mv_pc' = "extract"
    /\ UNCHANGED <<movetext_flat, eval_stats, has_eval, ply_idx, last_eval_by_side,
                   cp_losses, acc_per_move, average_accuracy>>
    /\ UNCHANGED moveOthers

CurToken == tokens[tok_idx + 1]

ExtractApply ==
    LET st == ExtractStep([moves |-> moves, last_move_index |-> last_move_index], CurToken)
    IN  /\ moves' = st.moves
        /\ last_move_index' = st.last_move_index
        /\ tok_idx' = tok_idx + 1
        /\ UNCHANGED <<movetext_flat, mv_pc, eval_stats, tokens, has_eval, ply_idx,
                       last_eval_by_side, cp_losses, acc_per_move, average_accuracy>>
        /\ UNCHANGED moveOthers

\* loop body for a TOKEN
ExtractToken ==
    /\ mv_pc = "extract" /\ tok_idx < Len(tokens)
    /\ CurToken[1] = "TOKEN"
    /\ ExtractApply

\* loop body for a COMMENT
ExtractComment ==
    /\ mv_pc = "extract" /\ tok_idx < Len(tokens)
    /\ CurToken[1] = "COMMENT"
    /\ ExtractApply

\* return moves
ExtractReturn ==
    /\ mv_pc = "extract" /\ tok_idx = Len(tokens)
    /\ mv_pc' = "metrics"
    /\ UNCHANGED <<movetext_flat, eval_stats, tokens, tok_idx, moves, last_move_index,
                   has_eval, ply_idx, last_eval_by_side, cp_losses, acc_per_move,
                   average_accuracy>>
    /\ UNCHANGED moveOthers

\* compute_accuracy_metrics_from_moves: the statements before the loop
MetricsBegin ==
    /\ mv_pc = "metrics"
    /\ has_eval' = Some(AnyEval(moves))
    /\ last_eval_by_side' = AccInitState.last
    /\ cp_losses' = AccInitState.cp
    /\ acc_per_move' = AccInitState.acc
    /\ ply_idx' = 0
    /\ mv_pc' = "accuracy"
    /\ UNCHANGED <<movetext_flat, eval_stats, tokens, tok_idx, moves, last_move_index,
                   average_accuracy>>
    /\ UNCHANGED moveOthers

CurMove == moves[ply_idx + 1]

AccApply ==
    LET st == AccStep([last |-> last_eval_by_side, cp |-> cp_losses, acc |-> acc_per_move],
                      ply_idx, CurMove)
    IN  /\ last_eval_by_side' = st.last
        /\ cp_losses' = st.cp
        /\ acc_per_move' = st.acc
        /\ ply_idx' = ply_idx + 1
        /\ UNCHANGED <<movetext_flat, mv_pc, eval_stats, tokens, tok_idx, moves,
                       last_move_index, has_eval, average_accuracy>>
        /\ UNCHANGED moveOthers

InAccLoop == mv_pc = "accuracy" /\ ply_idx < Len(moves)

\* ev is None : continue
AccuracyNoEval ==
    /\ InAccLoop
    /\ IsNone(CurMove.eval)
    /\ AccApply

\* prev is None : the eval is remembered, nothing is appended
AccuracyFirstEval ==
    /\ InAccLoop
    /\ ~IsNone(CurMove.eval)
    /\ IsNone(last_eval_by_side[SideOf(ply_idx)])
    /\ AccApply

\* a cp loss is computed and the trajectories are extended
AccuracyAppend ==
    /\ InAccLoop
    /\ ~IsNone(CurMove.eval)
    /\ ~IsNone(last_eval_by_side[SideOf(ply_idx)])
    /\ AccApply

\* the statements after the loop and the return
MetricsReturn ==
    /\ mv_pc = "accuracy" /\ ply_idx = Len(moves)
    /\ average_accuracy' = [all |-> FinalAccuracy(cp_losses.all),
                            w   |-> FinalAccuracy(cp_losses.w),
                            b   |-> FinalAccuracy(cp_losses.b)]
    /\ mv_pc' = "done"
    /\ UNCHANGED <<movetext_flat, eval_stats, tokens, tok_idx, moves, last_move_index,
                   has_eval, ply_idx, last_eval_by_side, cp_losses, acc_per_move>>
    /\ UNCHANGED moveOthers

MovesNext ==
    \/ EvalStats
    \/ Tokenize
    \/ ExtractToken
    \/ ExtractComment
    \/ ExtractReturn
    \/ MetricsBegin
    \/ AccuracyNoEval
    \/ AccuracyFirstEval
    \/ AccuracyAppend
    \/ MetricsReturn

SpecMoves == MovesInit /\ [][MovesNext]_vars

\* ------------------------------------------------------------------------
\* Properties of the movetext pipeline
\* ------------------------------------------------------------------------
\* number of plies of one side that carry an eval among the first n moves
EvaluatedPlies(side, n) ==
    Cardinality({ i \in 1..n : SideOf(i - 1) = side /\ ~IsNone(moves[i].eval) })

OtherSide(side) == IF side = "w" THEN "b" ELSE "w"

\* C4: in the loop of compute_accuracy_metrics_from_moves a cp loss is
\* appended at ply i exactly when the move has an eval and the same side has
\* a previous eval; that step adds one entry to the combined trajectory, one
\* to that side's trajectory and none to the other side's; otherwise no
\* trajectory changes.  Each side's trajectory has max(0, evaluated plies of
\* that side - 1) entries and no trajectory holds an absent entry.
C4_Step ==
    InAccLoop =>
        LET side == SideOf(ply_idx)
            computed == ~IsNone(CurMove.eval) /\ ~IsNone(last_eval_by_side[side])
        IN  IF computed
            THEN /\ Len(cp_losses'[side]) = Len(cp_losses[side]) + 1
                 /\ Len(cp_losses'.all) = Len(cp_losses.all) + 1
                 /\ Len(acc_per_move'.all) = Len(acc_per_move.all) + 1
                 /\ Len(acc_per_move'[side]) = Len(acc_per_move[side]) + 1
                 /\ acc_per_move'[OtherSide(side)] = acc_per_move[OtherSide(side)]
                 /\ SubSeq(acc_per_move'.all, 1, Len(acc_per_move.all)) = acc_per_move.all
                 /\ SubSeq(acc_per_move'[side], 1, Len(acc_per_move[side])) = acc_per_move[side]
            ELSE /\ acc_per_move' = acc_per_move
                 /\ cp_losses' = cp_losses

C4_Lengths ==
    mv_pc \in {"accuracy", "done"} =>
        /\ \A side \in {"w", "b"} :
              LET n == EvaluatedPlies(side, ply_idx)
              IN  Len(acc_per_move[side]) = IF n = 0 THEN 0 ELSE n - 1
        /\ Len(acc_per_move.all) = Len(acc_per_move.w) + Len(acc_per_move.b)
        /\ \A key \in {"all", "w", "b"} :
              \A i \in 1..Len(acc_per_move[key]) : ~IsNone(acc_per_move[key][i])

C4_TrajectoryExtendedOnlyOnCpLoss == [](C4_Lengths) /\ [][C4_Step]_vars

\* a finished run in which White produced two cp losses and Black, with a
\* single evaluated ply, none
C4_Witness ==
    /\ mv_pc = "done"
    /\ Len(acc_per_move.w) = 2
    /\ Len(acc_per_move.b) = 0
    /\ EvaluatedPlies("b", Len(moves)) = 1
    /\ \E i \in 1..Len(moves) : IsNone(moves[i].eval)

\* the run went through the movetext functions and the extraction is over
ExtractionDone == ~IsNone(eval_stats) /\ mv_pc \in {"metrics", "accuracy", "done"}

\* C5: the has_eval of _extract_eval_stats and the has_eval of
\* compute_accuracy_metrics_from_moves on the extracted move list agree, and
\* both say whether at least one Move carries a numeric eval.
C5_HasEvalAgrees ==
    (mv_pc = "done" /\ ~IsNone(eval_stats)) =>
        /\ Val(eval_stats)[1] = Val(has_eval)
        /\ Val(has_eval) = (\E i \in 1..Len(moves) : ~IsNone(moves[i].eval))

\* indices, in the token list, of the tokens that became moves
MoveTokenIdxs == { i \in 1..Len(tokens) : tokens[i][1] = "TOKEN" /\ ~IsSkippedToken(tokens[i][2]) }

\* index of the token of the k-th move
MoveTokenIdx(k) ==
    CHOOSE i \in MoveTokenIdxs : Cardinality({ j \in MoveTokenIdxs : j <= i }) = k

\* the comment holds a [%eval X] token whose X is a number
CommentHasNumericEval(c, allowNonFinite) ==
    LET m == EVAL_RE_search(c)
    IN  /\ ~IsNone(m)
        /\ ~StartsWith(Strip(Val(m)), <<"#">>)
        /\ ~IsNone(ParseFloat(Strip(Val(m))))
        /\ (allowNonFinite \/ Val(ParseFloat(Strip(Val(m)))).k = "num")

\* C6 as stated: a Move's eval is present only when the comment immediately
\* following the move's token holds a [%eval X] with a finite numeric X.
C6_EvalOnlyFromImmediateFiniteComment ==
    ExtractionDone =>
        \A k \in 1..Len(moves) :
            ~IsNone(moves[k].eval) =>
                LET i == MoveTokenIdx(k)
                IN  /\ i + 1 <= Len(tokens)
                    /\ tokens[i + 1][1] = "COMMENT"
                    /\ CommentHasNumericEval(tokens[i + 1][2], FALSE)

\* C6 amended: a Move's eval is present only when some comment between the
\* move's token and the next move's token holds a [%eval X] whose X does not
\* start with "#" and is accepted by float() (nan and inf included); the
\* number of moves is the number of move tokens.
C6_EvalOnlyFromFollowingComment ==
    ExtractionDone =>
        /\ Len(moves) = Cardinality(MoveTokenIdxs)
        /\ \A k \in 1..Len(moves) :
              ~IsNone(moves[k].eval) =>
                  LET i   == MoveTokenIdx(k)
                      nxt == IF k < Len(moves) THEN MoveTokenIdx(k + 1) ELSE Len(tokens) + 1
                  IN  \E j \in (i + 1)..(nxt - 1) :
                          /\ tokens[j][1] = "COMMENT"
                          /\ CommentHasNumericEval(tokens[j][2], TRUE)

\* a move got its eval from the second comment that follows it
C6_Witness ==
    /\ ExtractionDone
    /\ \E k \in 1..Len(moves) :
          /\ ~IsNone(moves[k].eval)
          /\ tokens[MoveTokenIdx(k) + 1] = <<"COMMENT", <<"x">>>>

Scenario1Moves ==
    << [move |-> <<"e", "4">>,  eval |-> Some(FNum(30))],
       [move |-> <<"e", "5">>,  eval |-> Some(FNum(10))],
       [move |-> <<"N", "f", "3">>, eval |-> Some(FNum(20))] >>

Scenario1Parsed ==
    /\ moves = Scenario1Moves
    /\ Val(eval_stats)[1] = TRUE
    /\ has_eval = Some(TRUE)

\* C8 as stated: scenario 1 gives moves [e4, e5, Nf3] with evals
\* [0.3, 0.1, 0.2], has_eval true and an empty White trajectory.
C8_Scenario1WhiteEmpty ==
    (mv_pc = "done" /\ movetext_flat = Scenario1Movetext) =>
        /\ Scenario1Parsed
        /\ acc_per_move.w = << >>

\* C8 amended: scenario 1 gives moves [e4, e5, Nf3] with evals
\* [0.3, 0.1, 0.2] and has_eval true; the White trajectory has exactly one
\* entry, the accuracy of White's single cp loss |0.2 - 0.3| * 100 = 10
\* (e4 and Nf3 are both White plies with an eval), and the Black trajectory
\* is empty.
C8_Scenario1WhiteOneEntry ==
    (mv_pc = "done" /\ movetext_flat = Scenario1Movetext) =>
        /\ Scenario1Parsed
        /\ acc_per_move.w = << Some([k |-> "acc", v |-> [sum |-> FNum(10), n |-> 1]]) >>
        /\ acc_per_move.b = << >>
        /\ cp_losses.w = << FNum(10) >>

C8_Witness == mv_pc = "done" /\ movetext_flat = Scenario1Movetext /\ ply_idx = 3

\* ------------------------------------------------------------------------
\* Game parser : parse_game_headers and parse_games (pgn_reader.py)
\* ------------------------------------------------------------------------
MaxRecords == 2

\* str.lower()
LowerChar(c) ==
    CASE c = "A" -> "a" [] c = "B" -> "b" [] c = "C" -> "c" [] c = "D" -> "d" [] c = "E" -> "e" [] c = "F" -> "f" [] c = "G" -> "g" [] c = "H" -> "h" [] c = "I" -> "i" [] c = "J" -> "j" [] c = "K" -> "k" [] c = "L" -> "l" [] c = "M" -> "m"
      [] c = "N" -> "n" [] c = "O" -> "o" [] c = "P" -> "p" [] c = "Q" -> "q" [] c = "R" -> "r" [] c = "S" -> "s" [] c = "T" -> "t" [] c = "U" -> "u" [] c = "V" -> "v" [] c = "W" -> "w" [] c = "X" -> "x" [] c = "Y" -> "y" [] c = "Z" -> "z"
      [] OTHER -> c

Lower(s) == [i \in 1..Len(s) |-> LowerChar(s[i])]

\* x or y on Optional strings: None and "" are falsy
OrElse(x, y) == IF IsNone(x) \/ Val(x) = << >> THEN y ELSE x

\* s.split(sep) for a one-character separator
RECURSIVE Split(_, _)
Split(s, sep) ==
    LET hit == { i \in 1..Len(s) : s[i] = sep }
    IN  IF hit = {} THEN << s >>
        ELSE << SubSeq(s, 1, MinOf(hit) - 1) >> \o Split(SubSeq(s, MinOf(hit) + 1, Len(s)), sep)

IsLeapYear(y) == (y % 4 = 0 /\ y % 100 # 0) \/ y % 400 = 0

DaysInMonth(y, m) ==
    IF m = 2 THEN (IF IsLeapYear(y) THEN 29 ELSE 28)
    ELSE IF m \in {4, 6, 9, 11} THEN 30 ELSE 31

\* a one or two digit field of strptime within lo..hi, as an Optional
\* (a single "0" is not accepted where the field starts at 1)
TwoDigitField(s, lo, hi) ==
    IF Len(s) \in {1, 2} /\ AllDigits(s) /\ DigitsToInt(s) >= lo /\ DigitsToInt(s) <= hi
    THEN Some(DigitsToInt(s)) ELSE None

\* the "%Y.%m.%d" part of strptime, as an Optional <<y, m, d>>
ParseDate(s) ==
    LET p == Split(s, ".")
    IN  IF Len(p) # 3 THEN None
        ELSE LET m == TwoDigitField(p[2], 1, 12)
                 d == TwoDigitField(p[3], 1, 31)
             IN  IF /\ Len(p[1]) = 4 /\ AllDigits(p[1])
                    /\ DigitsToInt(p[1]) >= 1
                    /\ ~IsNone(m) /\ ~IsNone(d)
                    /\ Val(d) <= DaysInMonth(DigitsToInt(p[1]), Val(m))
                 THEN Some(<<DigitsToInt(p[1]), Val(m), Val(d)>>)
                 ELSE None

\* the "%H:%M:%S" part of strptime, as an Optional <<h, m, s>>
ParseTime(s) ==
    LET p == Split(s, ":")
    IN  IF Len(p) # 3 THEN None
        ELSE LET h  == TwoDigitField(p[1], 0, 23)
                 mi == TwoDigitField(p[2], 0, 59)
                 se == TwoDigitField(p[3], 0, 59)
             IN  IF ~IsNone(h) /\ ~IsNone(mi) /\ ~IsNone(se)
                 THEN Some(<<Val(h), Val(mi), Val(se)>>)
                 ELSE None

\* dt.datetime.strptime(f"{d} {t}", "%Y.%m.%d %H:%M:%S"), as an Optional
\* civil time <<y, m, d, h, mi, s>>; the date and the time are matched
\* separately
Strptime(d, t) ==
    IF IsNone(ParseDate(d)) \/ IsNone(ParseTime(t)) THEN None
    ELSE Some(Val(ParseDate(d)) \o Val(ParseTime(t)))

K_UTCDate == <<"U", "T", "C", "D", "a", "t", "e">>
K_Date    == <<"D", "a", "t", "e">>
K_UTCTime == <<"U", "T", "C", "T", "i", "m", "e">>
K_Result  == <<"R", "e", "s", "u", "l", "t">>
K_Variant == <<"V", "a", "r", "i", "a", "n", "t">>

UnknownDate == <<"?", "?", "?", "?", ".", "?", "?", ".", "?", "?">>

Midnight == <<"0", "0", ":", "0", "0", ":", "0", "0">>

\* _parse_ts_ms_from_tags, as an Optional; the timestamp is kept as the UTC
\* civil time it is computed from
_parse_ts_ms_from_tags(t) ==
    LET utc_date == OrElse(DictGet(t, K_UTCDate), DictGet(t, K_Date))
        utc_time == Val(OrElse(DictGet(t, K_UTCTime), Some(Midnight)))
    IN  IF IsNone(utc_date) \/ Val(utc_date) = << >> \/ Val(utc_date) = UnknownDate THEN None
        ELSE IF ~IsNone(Strptime(Val(utc_date), utc_time)) THEN Strptime(Val(utc_date), utc_time)
        ELSE Strptime(Val(utc_date), Midnight)

\* tags.get(key, default)
TagOr(t, key, default) == IF IsNone(DictGet(t, key)) THEN default ELSE Val(DictGet(t, key))

\* mutant of ResultAccepted: the unfinished-game marker passes the filter
ResultAccepted_Mut(result) == result \in ResultMarkers

\* result in ("1-0", "0-1", "1/2-1/2")
ResultAccepted(result) == result \in { <<"1", "-", "0">>, <<"0", "-", "1">>, <<"1", "/", "2", "-", "1", "/", "2">> }

\* mutant of VariantAccepted: the comparison is case-sensitive
VariantAccepted_Mut(variant) == variant = <<"S", "t", "a", "n", "d", "a", "r", "d">>

\* variant.lower() == "standard"
VariantAccepted(variant) == Lower(variant) = <<"s", "t", "a", "n", "d", "a", "r", "d">>

\* int(v) on a tag value, as an Optional: blanks around an optional sign and
\* digits
ParseInt(v) ==
    LET s      == Strip(v)
        signed == Len(s) >= 1 /\ s[1] \in {"+", "-"}
        body   == IF signed THEN SubSeq(s, 2, Len(s)) ELSE s
    IN  IF body # << >> /\ AllDigits(body)
        THEN Some((IF signed /\ s[1] = "-" THEN -1 ELSE 1) * DigitsToInt(body))
        ELSE None

\* _safe_int(key)
_safe_int(t, key) == IF IsNone(DictGet(t, key)) THEN None ELSE ParseInt(Val(DictGet(t, key)))

\* COMMENT_RE.sub(" ", s) : every {...} without an inner "}" becomes a blank
RECURSIVE StripComments(_)
StripComments(s) ==
    LET open == { i \in 1..Len(s) : s[i] = "{" /\ \E j \in (i + 1)..Len(s) : s[j] = "}" }
    IN  IF open = {} THEN s
        ELSE LET i == MinOf(open)
                 j == MinOf({ k \in (i + 1)..Len(s) : s[k] = "}" })
             IN  SubSeq(s, 1, i - 1) \o <<" ">> \o StripComments(SubSeq(s, j + 1, Len(s)))

\* NAG_RE.sub(" ", s) : every $ followed by digits becomes a blank
RECURSIVE StripNags(_)
StripNags(s) ==
    LET nag == { i \in 1..(Len(s) - 1) : s[i] = "$" /\ s[i + 1] \in Digits }
    IN  IF nag = {} THEN s
        ELSE LET i  == MinOf(nag)
                 nd == { k \in (i + 1)..Len(s) : s[k] \notin Digits }
                 j  == IF nd = {} THEN Len(s) + 1 ELSE MinOf(nd)
             IN  SubSeq(s, 1, i - 1) \o <<" ">> \o StripNags(SubSeq(s, j, Len(s)))

\* len(MOVE_NUMBER_RE.findall(s)) for \b\d+\. : the digit runs that start at
\* a word boundary and are followed by a dot
CountMoveNumbers(s) ==
    Cardinality({ i \in 1..Len(s) :
        /\ s[i] \in Digits
        /\ (i = 1 \/ ~IsWord(s[i - 1]))
        /\ LET nd == { k \in i..Len(s) : s[k] \notin Digits }
           IN  nd # {} /\ s[MinOf(nd)] = "." })

_approx_moves_from_movetext(flat) == CountMoveNumbers(StripNags(StripComments(flat)))

\* _reconstruct_pgn_source(tags, movetext_raw)
_reconstruct_pgn_source(t, raw) ==
    Join(<<"\n">>, [i \in 1..Len(t) |->
                        <<"[">> \o t[i][1] \o <<" ", "\"">> \o t[i][2] \o <<"\"", "]">>])
      \o <<"\n", "\n">> \o Strip(raw) \o <<"\n">>

\* the GameHeader built from a record that passed the filters
GameHeaderOf(rec) ==
    LET t  == rec.tags
        es == _extract_eval_stats(rec.flat)
    IN  [event |-> DictGet(t, <<"E", "v", "e", "n", "t">>),
         site |-> DictGet(t, <<"S", "i", "t", "e">>),
         white |-> TagOr(t, <<"W", "h", "i", "t", "e">>, << >>),
         black |-> TagOr(t, <<"B", "l", "a", "c", "k">>, << >>),
         result |-> TagOr(t, K_Result, <<"*">>),
         ts_ms |-> Val(_parse_ts_ms_from_tags(t)),
         white_elo |-> _safe_int(t, <<"W", "h", "i", "t", "e", "E", "l", "o">>),
         black_elo |-> _safe_int(t, <<"B", "l", "a", "c", "k", "E", "l", "o">>),
         white_rating_diff |-> _safe_int(t, <<"W", "h", "i", "t", "e", "R", "a", "t", "i", "n", "g", "D", "i", "f", "f">>),
         black_rating_diff |-> _safe_int(t, <<"B", "l", "a", "c", "k", "R", "a", "t", "i", "n", "g", "D", "i", "f", "f">>),
         time_control_raw |-> TagOr(t, <<"T", "i", "m", "e", "C", "o", "n", "t", "r", "o", "l">>, << >>),
         termination |-> DictGet(t, <<"T", "e", "r", "m", "i", "n", "a", "t", "i", "o", "n">>),
         variant |-> TagOr(t, K_Variant, <<"S", "t", "a", "n", "d", "a", "r", "d">>),
         eco |-> DictGet(t, <<"E", "C", "O">>),
         opening |-> DictGet(t, <<"O", "p", "e", "n", "i", "n", "g">>),
         white_title |-> DictGet(t, <<"W", "h", "i", "t", "e", "T", "i", "t", "l", "e">>),
         black_title |-> DictGet(t, <<"B", "l", "a", "c", "k", "T", "i", "t", "l", "e">>),
         moves |-> _approx_moves_from_movetext(rec.flat),
         has_eval |-> es[1],
         white_cp_loss |-> es[2],
         black_cp_loss |-> es[3]]

\* the ParsedGame yielded by parse_games
ParsedGameOf(rec) ==
    [header |-> GameHeaderOf(rec),
     tags |-> rec.tags,
     moves_san |-> _extract_moves_with_eval(rec.flat),
     movetext_raw |-> rec.raw,
     pgn_source |-> _reconstruct_pgn_source(rec.tags, rec.raw)]

\* records handed over by the splitter: the tags that the filters read, in
\* the combinations below, two Elo tags and a one-line movetext
ResultTagSet == { None, Some(<<"1", "-", "0">>), Some(<<"0", "-", "1">>), Some(<<"1", "/", "2", "-", "1", "/", "2">>), Some(<<"*">>) }

VariantTagSet == { None, Some(<<"S", "T", "A", "N", "D", "A", "R", "D">>), Some(<<"C", "h", "e", "s", "s", "9", "6", "0">>) }

\* <<UTCDate, Date, UTCTime>>
DateTagSet ==
    { << Some(<<"2", "0", "1", "3", ".", "0", "1", ".", "0", "1">>), None, Some(<<"1", "2", ":", "0", "0", ":", "0", "0">>) >>,
      << None, Some(<<"2", "0", "1", "3", ".", "0", "1", ".", "0", "2">>), None >>,
      << Some(<<"2", "0", "1", "3", ".", "0", "1", ".", "0", "1">>), None, Some(<<"2", "5", ":", "0", "0", ":", "0", "0">>) >>,
      << None, None, Some(<<"1", "2", ":", "0", "0", ":", "0", "0">>) >>,
      << Some(UnknownDate), Some(<<"2", "0", "1", "3", ".", "0", "1", ".", "0", "2">>), None >>,
      << Some(<<"2", "0", "1", "3", ".", "0", "2", ".", "3", "0">>), None, None >> }

\* the tag dict holding the present tags in file order
TagsFrom(pairs) ==
    LET present == SelectSeq(pairs, LAMBDA p : ~IsNone(p[2]))
    IN  [i \in 1..Len(present) |-> <<present[i][1], Val(present[i][2])>>]

RecordMovetext == <<"1", ".", " ", "e", "4", " ", "{", " ", "[", "%", "e", "v", "a", "l", " ", "0", ".", "3", "]", " ", "}", " ", "1", "-", "0">>

RecordSet ==
    { [tags |-> TagsFrom(<< <<<<"W", "h", "i", "t", "e", "E", "l", "o">>, Some(<<"1", "6", "0", "0">>)>>, <<<<"B", "l", "a", "c", "k", "E", "l", "o">>, Some(<<"?">>)>>,
                            <<K_Result, r>>, <<K_UTCDate, d[1]>>, <<K_Date, d[2]>>,
                            <<K_UTCTime, d[3]>>, <<K_Variant, v>> >>),
       flat |-> RecordMovetext,
       raw  |-> RecordMovetext] :
      r \in ResultTagSet, v \in VariantTagSet, d \in DateTagSet }


\* normalize_result_value (game_helpers.py)
normalize_result_value(result_raw) ==
    IF result_raw = <<"1", "-", "0">> THEN 1
    ELSE IF result_raw = <<"0", "-", "1">> THEN -1
    ELSE IF result_raw = <<"1", "/", "2", "-", "1", "/", "2">> THEN 0
    ELSE 0

\* result_raw and result_value of an emitted game, as the ParsedGame
\* dataclass of models.py declares them and parser.py writes them: the raw
\* Result string and its normalize_result_value
ResultFieldsOf(g) ==
    [result_raw |-> g.header.result,
     result_value |-> normalize_result_value(g.header.result)]

gameOthers == <<splitVars, moveVars, openingVars, heatVars, popVars, explorerVars, registryVars, exportVars, cliVars, tcVars, binVars, tzVars>>

GamesInit ==
    /\ SplitIdle /\ MovesIdle /\ OpeningIdle /\ HeatIdle /\ PopIdle /\ ExplorerIdle /\ RegistryIdle /\ ExportIdle /\ CliIdle /\ TcIdle /\ BinIdle /\ TzIdle
    /\ gp_fn \in {"parse_game_headers", "parse_games"}
    /\ gp_pc = "loop"
    /\ rec_count = 0
    /\ cur_rec = None
    /\ games_out = << >>

\* the for loop takes the next record of the splitter
TakeRecord(fn, rec) ==
    /\ gp_fn = fn
    /\ gp_pc = "loop"
    /\ rec_count < MaxRecords
    /\ rec_count' = rec_count + 1
    /\ cur_rec' = Some(rec)
    /\ UNCHANGED <<gp_fn, gp_pc>>

\* the first failing filter of the loop body, "" when the record passes
FailingFilter(rec) ==
    IF IsNone(_parse_ts_ms_from_tags(rec.tags)) THEN "ts_ms"
    ELSE IF ~ResultAccepted(TagOr(rec.tags, K_Result, <<"*">>)) THEN "result"
    ELSE IF ~VariantAccepted(TagOr(rec.tags, K_Variant, <<"S", "t", "a", "n", "d", "a", "r", "d">>)) THEN "variant"
    ELSE ""

\* FailingFilter over the records of the model, computed once
FailingFilterOf == [rec \in RecordSet |-> FailingFilter(rec)]

\* parse_game_headers: if ts_ms is None: continue
HeadersSkipNoTimestamp ==
    /\ \E rec \in RecordSet :
          /\ TakeRecord("parse_game_headers", rec)
          /\ FailingFilterOf[rec] = "ts_ms"
    /\ UNCHANGED <<games_out, gameOthers>>

\* parse_game_headers: if result not in (...): continue
HeadersSkipResult ==
    /\ \E rec \in RecordSet :
          /\ TakeRecord("parse_game_headers", rec)
          /\ FailingFilterOf[rec] = "result"
    /\ UNCHANGED <<games_out, gameOthers>>

\* parse_game_headers: if variant.lower() != "standard": continue
HeadersSkipVariant ==
    /\ \E rec \in RecordSet :
          /\ TakeRecord("parse_game_headers", rec)
          /\ FailingFilterOf[rec] = "variant"
    /\ UNCHANGED <<games_out, gameOthers>>

\* parse_game_headers: yield GameHeader(...)
HeadersYield ==
    /\ \E rec \in RecordSet :
          /\ TakeRecord("parse_game_headers", rec)
          /\ FailingFilterOf[rec] = ""
          /\ games_out' = Append(games_out, GameHeaderOf(rec))
    /\ UNCHANGED gameOthers

\* parse_games: if ts_ms is None: continue
GamesSkipNoTimestamp ==
    /\ \E rec \in RecordSet :
          /\ TakeRecord("parse_games", rec)
          /\ FailingFilterOf[rec] = "ts_ms"
    /\ UNCHANGED <<games_out, gameOthers>>

\* parse_games: if result not in (...): continue
GamesSkipResult ==
    /\ \E rec \in RecordSet :
          /\ TakeRecord("parse_games", rec)
          /\ FailingFilterOf[rec] = "result"
    /\ UNCHANGED <<games_out, gameOthers>>

\* parse_games: if variant.lower() != "standard": continue
GamesSkipVariant ==
    /\ \E rec \in RecordSet :
          /\ TakeRecord("parse_games", rec)
          /\ FailingFilterOf[rec] = "variant"
    /\ UNCHANGED <<games_out, gameOthers>>

\* parse_games: yield ParsedGame(...)
GamesYield ==
    /\ \E rec \in RecordSet :
          /\ TakeRecord("parse_games", rec)
          /\ FailingFilterOf[rec] = ""
          /\ games_out' = Append(games_out, ParsedGameOf(rec))
    /\ UNCHANGED gameOthers

\* the splitter is exhausted: the for loop ends and the generator returns
GamesEndOfStream ==
    /\ gp_pc = "loop"
    /\ gp_pc' = "done"
    /\ UNCHANGED <<gp_fn, rec_count, cur_rec, games_out, gameOthers>>

GamesNext ==
    \/ HeadersSkipNoTimestamp
    \/ HeadersSkipResult
    \/ HeadersSkipVariant
    \/ HeadersYield
    \/ GamesSkipNoTimestamp
    \/ GamesSkipResult
    \/ GamesSkipVariant
    \/ GamesYield
    \/ GamesEndOfStream

SpecGames == GamesInit /\ [][GamesNext]_vars

\* ---- properties of the game parser ----

\* the date the timestamp is read from: UTCDate, or Date when UTCDate is
\* absent or empty
C2_DateTag(t) ==
    IF ~IsNone(DictGet(t, K_UTCDate)) /\ Val(DictGet(t, K_UTCDate)) # << >>
    THEN DictGet(t, K_UTCDate) ELSE DictGet(t, K_Date)

C2_ResultIsDecisive(t) ==
    /\ ~IsNone(DictGet(t, K_Result))
    /\ Val(DictGet(t, K_Result)) \in { <<"1", "-", "0">>, <<"0", "-", "1">>, <<"1", "/", "2", "-", "1", "/", "2">> }

C2_HasTimestamp(t) ==
    /\ ~IsNone(C2_DateTag(t))
    /\ Val(C2_DateTag(t)) # UnknownDate
    /\ ~IsNone(ParseDate(Val(C2_DateTag(t))))

\* the Variant tag is present and equals "Standard" up to case
C2_VariantTagIsStandard(t) ==
    /\ ~IsNone(DictGet(t, K_Variant))
    /\ Lower(Val(DictGet(t, K_Variant))) = <<"s", "t", "a", "n", "d", "a", "r", "d">>

\* as above, an absent Variant tag counting as Standard
C2_VariantIsStandardOrAbsent(t) ==
    IsNone(DictGet(t, K_Variant)) \/ C2_VariantTagIsStandard(t)

\* C2 as stated: every game yielded by parse_games carries a decisive Result
\* tag, a Variant tag equal to "Standard" up to case, and tags a timestamp
\* can be built from.
C2_YieldedHaveStandardVariantTag ==
    gp_fn = "parse_games" =>
        \A i \in 1..Len(games_out) :
            /\ C2_ResultIsDecisive(games_out[i].tags)
            /\ C2_VariantTagIsStandard(games_out[i].tags)
            /\ C2_HasTimestamp(games_out[i].tags)

C2_Passes(t) ==
    C2_ResultIsDecisive(t) /\ C2_VariantIsStandardOrAbsent(t) /\ C2_HasTimestamp(t)

C2_Step ==
    /\ rec_count' \in {rec_count, rec_count + 1}
    /\ rec_count' = rec_count => games_out' = games_out
    /\ rec_count' = rec_count + 1 =>
          /\ gp_pc' = "loop"
          /\ IF C2_Passes(Val(cur_rec').tags)
             THEN /\ Len(games_out') = Len(games_out) + 1
                  /\ SubSeq(games_out', 1, Len(games_out)) = games_out
                  /\ IF gp_fn = "parse_games"
                     THEN games_out'[Len(games_out')].tags = Val(cur_rec').tags
                     ELSE games_out'[Len(games_out')].result
                              = Val(DictGet(Val(cur_rec').tags, K_Result))
             ELSE games_out' = games_out

\* C2 (amended): parse_games and parse_game_headers yield a record exactly
\* when its Result tag is one of 1-0, 0-1, 1/2-1/2, its Variant tag is absent
\* or equals "Standard" up to case, and its UTCDate (or Date) is a valid
\* date; a record failing one of these is skipped, nothing is yielded for it
\* and the loop goes on with the next record.
C2_YieldedExactlyWhenFiltersPass == [][C2_Step]_vars

\* a record without Variant tag was yielded after an earlier record was
\* dropped
C2_Witness ==
    /\ gp_fn = "parse_games"
    /\ rec_count = 2
    /\ Len(games_out) = 1
    /\ IsNone(DictGet(games_out[1].tags, K_Variant))
    /\ Val(cur_rec).tags = games_out[1].tags

Abs(n) == IF n < 0 THEN -n ELSE n

RECURSIVE Gcd(_, _)
Gcd(a, b) == IF b = 0 THEN a ELSE Gcd(b, a % b)

Rat(n, d) ==
    LET g == Gcd(Abs(n), Abs(d))
        sg == IF d < 0 THEN -1 ELSE 1
    IN  [num |-> sg * (n \div g), den |-> sg * (d \div g)]

RatOfInt(n) == [num |-> n, den |-> 1]

RatLess(a, b) == a.num * b.den < b.num * a.den

\* mutant of _compute_opening_and_after_accuracy: the opening average is
\* read one entry too far
_compute_opening_and_after_accuracy_Mut(acc, opening_moves) ==
    IF acc = << >> \/ Len(acc) <= opening_moves THEN None
    ELSE LET opening_avg == acc[opening_moves + 1]
             final_avg   == acc[Len(acc)]
             n_total     == Len(acc)
             total_sum   == final_avg * n_total
             opening_sum == opening_avg * opening_moves
             n_after     == n_total - opening_moves
         IN  IF n_after <= 0 THEN None
             ELSE Some(<<RatOfInt(opening_avg), Rat(total_sum - opening_sum, n_after)>>)

\* _compute_opening_and_after_accuracy; acc_per_move[i] of the code is
\* acc[i + 1] here
_compute_opening_and_after_accuracy(acc, opening_moves) ==
    IF acc = << >> \/ Len(acc) <= opening_moves THEN None
    ELSE LET opening_avg == acc[opening_moves]
             final_avg   == acc[Len(acc)]
             n_total     == Len(acc)
             total_sum   == final_avg * n_total
             opening_sum == opening_avg * opening_moves
             n_after     == n_total - opening_moves
         IN  IF n_after <= 0 THEN None
             ELSE Some(<<RatOfInt(opening_avg), Rat(total_sum - opening_sum, n_after)>>)

MaxTrajectory == 4

MaxOpeningMoves == 3

\* cumulative accuracies of the trajectories
AccuracySet == {60, 70, 80, 90}

openingOthers == <<splitVars, moveVars, gameVars, heatVars, popVars, explorerVars, registryVars, exportVars, cliVars, tcVars, binVars, tzVars>>

OpeningInit ==
    /\ SplitIdle /\ MovesIdle /\ GamesIdle /\ HeatIdle /\ PopIdle /\ ExplorerIdle /\ RegistryIdle /\ ExportIdle /\ CliIdle /\ TcIdle /\ BinIdle /\ TzIdle
    /\ oa_pc = "call"
    /\ oa_acc_per_move \in BSeq(AccuracySet, MaxTrajectory)
    /\ oa_opening_moves \in 1..MaxOpeningMoves
    /\ oa_res = None

\* res = _compute_opening_and_after_accuracy(acc, opening_moves) with
\* res is None
OpeningReturnsNone ==
    /\ oa_pc = "call"
    /\ IsNone(_compute_opening_and_after_accuracy(oa_acc_per_move, oa_opening_moves))
    /\ oa_res' = None
    /\ oa_pc' = "return"
    /\ UNCHANGED <<oa_acc_per_move, oa_opening_moves, openingOthers>>

\* res = _compute_opening_and_after_accuracy(acc, opening_moves) with a pair
OpeningReturnsPair ==
    /\ oa_pc = "call"
    /\ ~IsNone(_compute_opening_and_after_accuracy(oa_acc_per_move, oa_opening_moves))
    /\ oa_res' = _compute_opening_and_after_accuracy(oa_acc_per_move, oa_opening_moves)
    /\ oa_pc' = "return"
    /\ UNCHANGED <<oa_acc_per_move, oa_opening_moves, openingOthers>>

OpeningNext == OpeningReturnsNone \/ OpeningReturnsPair

SpecOpening == OpeningInit /\ [][OpeningNext]_vars

\* C9: on a trajectory a of N entries with opening_moves = K >= 1 the
\* function returns no result when N <= K, and when N > K it returns
\* opening_avg = a[K-1] and after_avg = (a[N-1]*N - a[K-1]*K)/(N-K);
\* [90, 80, 70, 60] with K = 2 gives (80, 40).
C9_OpeningAndAfterAccuracy ==
    oa_pc = "return" =>
        LET a == oa_acc_per_move
            N == Len(oa_acc_per_move)
            K == oa_opening_moves
        IN  /\ N <= K => oa_res = None
            /\ N > K =>
                  /\ oa_res # None
                  /\ Val(oa_res)[1] = RatOfInt(a[K])
                  /\ Val(oa_res)[2].den > 0
                  /\ Val(oa_res)[2].num * (N - K) = (a[N] * N - a[K] * K) * Val(oa_res)[2].den
            /\ (a = <<90, 80, 70, 60>> /\ K = 2) =>
                  oa_res = Some(<<RatOfInt(80), RatOfInt(40)>>)

\* the call on [90, 80, 70, 60] with K = 2 returned (80, 40)
C9_Witness ==
    /\ oa_pc = "return"
    /\ oa_acc_per_move = <<90, 80, 70, 60>>
    /\ oa_opening_moves = 2
    /\ oa_res = Some(<<RatOfInt(80), RatOfInt(40)>>)


RatAdd(a, b) == Rat(a.num * b.den + b.num * a.den, a.den * b.den)

\* the leaves of the returned document carry their Python type
PyInt(n) == [type |-> "int", val |-> n]

PyFloat(r) == [type |-> "float", val |-> r]

\* a decoded JSON list
JsonList(xs) == [type |-> "list", val |-> xs]

\* a decoded JSON document that is not a list
JsonObject == [type |-> "object", val |-> << >>]

\* _fast_json_loads on an Optional column cell, the cell holding the document
\* that its text decodes to
_fast_json_loads(cell) == IF IsNone(cell) THEN JsonList(<< >>) ELSE Val(cell)

_clamp(x, lo, hi) == IF RatLess(x, lo) THEN lo ELSE IF RatLess(hi, x) THEN hi ELSE x

\* mutant of _bin_index_10: the index past the last bin is returned as it is
_bin_index_10_Mut(v) ==
    LET x   == _clamp(v, RatOfInt(0), RatOfInt(100))
        idx == x.num \div (x.den * 10)
    IN  idx

_bin_index_10(v) ==
    LET x   == _clamp(v, RatOfInt(0), RatOfInt(100))
        idx == x.num \div (x.den * 10)
    IN  IF idx >= 10 THEN 9 ELSE idx

_elo_bracket(elo) ==
    IF elo < 500 THEN "0-500"
    ELSE IF elo < 1000 THEN "500-1000"
    ELSE IF elo < 1500 THEN "1000-1500"
    ELSE IF elo < 2000 THEN "1500-2000"
    ELSE "2000+"

_new_matrix_float == [y \in 0..9 |-> [x \in 0..9 |-> RatOfInt(0)]]

_new_matrix_int == [y \in 0..9 |-> [x \in 0..9 |-> 0]]

_player_win_score(result_value, is_white) ==
    IF result_value = 0 THEN Rat(1, 2)
    ELSE IF is_white THEN (IF result_value = 1 THEN RatOfInt(1) ELSE RatOfInt(0))
    ELSE (IF result_value = -1 THEN RatOfInt(1) ELSE RatOfInt(0))

\* _opening_root on an Optional name
_opening_root(name) ==
    LET s == Strip(IF IsNone(name) THEN << >> ELSE Val(name))
    IN  IF s = << >> THEN << >>
        ELSE IF Contains(s, <<":">>) THEN Strip(Split(s, ":")[1])
        ELSE s

ALLOWED_TIME_CONTROLS == { <<"B", "L", "I", "T", "Z">>, <<"R", "A", "P", "I", "D">>, <<"B", "U", "L", "L", "E", "T">> }

OPENING_WHITELIST ==
    { <<"S", "i", "c", "i", "l", "i", "a", "n", " ", "D", "e", "f", "e", "n", "s", "e">>,
      <<"F", "r", "e", "n", "c", "h", " ", "D", "e", "f", "e", "n", "s", "e">>,
      <<"C", "a", "r", "o", "-", "K", "a", "n", "n", " ", "D", "e", "f", "e", "n", "s", "e">>,
      <<"S", "c", "a", "n", "d", "i", "n", "a", "v", "i", "a", "n", " ", "D", "e", "f", "e", "n", "s", "e">>,
      <<"A", "l", "e", "k", "h", "i", "n", "e", " ", "D", "e", "f", "e", "n", "s", "e">>,
      <<"P", "i", "r", "c", " ", "D", "e", "f", "e", "n", "s", "e">>,
      <<"M", "o", "d", "e", "r", "n", " ", "D", "e", "f", "e", "n", "s", "e">>,
      <<"D", "u", "t", "c", "h", " ", "D", "e", "f", "e", "n", "s", "e">>,
      <<"P", "h", "i", "l", "i", "d", "o", "r", " ", "D", "e", "f", "e", "n", "s", "e">>,
      <<"P", "e", "t", "r", "o", "v", "'", "s", " ", "D", "e", "f", "e", "n", "s", "e">>,
      <<"I", "t", "a", "l", "i", "a", "n", " ", "G", "a", "m", "e">>,
      <<"R", "u", "y", " ", "L", "o", "p", "e", "z">>,
      <<"S", "c", "o", "t", "c", "h", " ", "G", "a", "m", "e">>,
      <<"F", "o", "u", "r", " ", "K", "n", "i", "g", "h", "t", "s", " ", "G", "a", "m", "e">>,
      <<"V", "i", "e", "n", "n", "a", " ", "G", "a", "m", "e">>,
      <<"K", "i", "n", "g", "'", "s", " ", "G", "a", "m", "b", "i", "t">>,
      <<"E", "n", "g", "l", "i", "s", "h", " ", "O", "p", "e", "n", "i", "n", "g">>,
      <<"Q", "u", "e", "e", "n", "'", "s", " ", "G", "a", "m", "b", "i", "t">>,
      <<"S", "l", "a", "v", " ", "D", "e", "f", "e", "n", "s", "e">>,
      <<"S", "e", "m", "i", "-", "S", "l", "a", "v", " ", "D", "e", "f", "e", "n", "s", "e">>,
      <<"N", "i", "m", "z", "o", "-", "I", "n", "d", "i", "a", "n", " ", "D", "e", "f", "e", "n", "s", "e">>,
      <<"Q", "u", "e", "e", "n", "'", "s", " ", "I", "n", "d", "i", "a", "n", " ", "D", "e", "f", "e", "n", "s", "e">>,
      <<"B", "o", "g", "o", "-", "I", "n", "d", "i", "a", "n", " ", "D", "e", "f", "e", "n", "s", "e">>,
      <<"K", "i", "n", "g", "'", "s", " ", "I", "n", "d", "i", "a", "n", " ", "D", "e", "f", "e", "n", "s", "e">>,
      <<"G", "r", "ü", "n", "f", "e", "l", "d", " ", "D", "e", "f", "e", "n", "s", "e">>,
      <<"B", "e", "n", "o", "n", "i", " ", "D", "e", "f", "e", "n", "s", "e">>,
      <<"B", "e", "n", "k", "o", " ", "G", "a", "m", "b", "i", "t">>,
      <<"L", "o", "n", "d", "o", "n", " ", "S", "y", "s", "t", "e", "m">>,
      <<"C", "a", "t", "a", "l", "a", "n", " ", "O", "p", "e", "n", "i", "n", "g">>,
      <<"R", "é", "t", "i", " ", "O", "p", "e", "n", "i", "n", "g">>,
      <<"B", "i", "r", "d", " ", "O", "p", "e", "n", "i", "n", "g">>,
      <<"P", "o", "l", "i", "s", "h", " ", "O", "p", "e", "n", "i", "n", "g">>,
      <<"O", "w", "e", "n", " ", "D", "e", "f", "e", "n", "s", "e">>,
      <<"C", "z", "e", "c", "h", " ", "D", "e", "f", "e", "n", "s", "e">>,
      <<"T", "r", "o", "m", "p", "o", "w", "s", "k", "y", " ", "A", "t", "t", "a", "c", "k">>,
      <<"V", "e", "r", "e", "s", "o", "v", " ", "O", "p", "e", "n", "i", "n", "g">>,
      <<"J", "o", "b", "a", "v", "a", " ", "L", "o", "n", "d", "o", "n", " ", "S", "y", "s", "t", "e", "m">>,
      <<"S", "t", "o", "n", "e", "w", "a", "l", "l", " ", "A", "t", "t", "a", "c", "k">> }

GroupAll == <<"A", "l", "l">>

GroupUnknown == <<"U", "n", "k", "n", "o", "w", "n">>

\* _AggCell(counts=_new_matrix_int(), win_sums=_new_matrix_float(), total=0)
NewAggCell == [counts |-> _new_matrix_int, win_sums |-> _new_matrix_float, total |-> 0]

\* ensure_cell : the aggregation with the cell created when it is missing
ensure_cell(a, tc, bracket, opening_name) ==
    LET a1   == IF IsNone(DictGet(a, tc)) THEN DictSet(a, tc, << >>) ELSE a
        byb  == Val(DictGet(a1, tc))
        byb1 == IF IsNone(DictGet(byb, bracket)) THEN DictSet(byb, bracket, << >>) ELSE byb
        byo  == Val(DictGet(byb1, bracket))
        byo1 == IF IsNone(DictGet(byo, opening_name))
                THEN DictSet(byo, opening_name, NewAggCell) ELSE byo
    IN  DictSet(a1, tc, DictSet(byb1, bracket, byo1))

\* agg[tc][bracket][opening_name]
CellAt(a, tc, bracket, opening_name) ==
    Val(DictGet(Val(DictGet(Val(DictGet(a, tc)), bracket)), opening_name))

\* the aggregation with agg[tc][bracket][opening_name] replaced
WithCell(a, tc, bracket, opening_name, cell) ==
    LET byb == Val(DictGet(a, tc))
        byo == Val(DictGet(byb, bracket))
    IN  DictSet(a, tc, DictSet(byb, bracket, DictSet(byo, opening_name, cell)))

\* mutant of add_sample: the total of the cell is not incremented
add_sample_Mut(a, tc, bracket, opening_name, opening_acc, after_acc, win_score) ==
    LET x    == _bin_index_10(opening_acc)
        y    == _bin_index_10(after_acc)
        a1   == ensure_cell(a, tc, bracket, opening_name)
        cell == CellAt(a1, tc, bracket, opening_name)
    IN  WithCell(a1, tc, bracket, opening_name,
                 [counts   |-> [cell.counts EXCEPT ![y][x] = @ + 1],
                  win_sums |-> [cell.win_sums EXCEPT ![y][x] = RatAdd(@, win_score)],
                  total    |-> cell.total])

add_sample(a, tc, bracket, opening_name, opening_acc, after_acc, win_score) ==
    LET x    == _bin_index_10(opening_acc)
        y    == _bin_index_10(after_acc)
        a1   == ensure_cell(a, tc, bracket, opening_name)
        cell == CellAt(a1, tc, bracket, opening_name)
    IN  WithCell(a1, tc, bracket, opening_name,
                 [counts   |-> [cell.counts EXCEPT ![y][x] = @ + 1],
                  win_sums |-> [cell.win_sums EXCEPT ![y][x] = RatAdd(@, win_score)],
                  total    |-> cell.total + 1])

\* normalize_opening : <<has_opening, grouped_name>>
normalize_opening(self, raw) ==
    LET s      == Strip(IF IsNone(raw) THEN << >> ELSE Val(raw))
        family == _opening_root(Some(s))
    IN  IF s = << >> THEN <<FALSE, << >> >>
        ELSE IF family = << >> THEN <<FALSE, << >> >>
        ELSE IF family \in OPENING_WHITELIST THEN <<TRUE, family>>
        ELSE IF self.group_unlisted_to_other THEN <<TRUE, self.other_label>>
        ELSE <<TRUE, family>>

\* the WHITE sample / BLACK sample block of the row loop
PlayerSample(a, self, row, is_white) ==
    LET elo == IF is_white THEN row.white_elo ELSE row.black_elo
        acc == _fast_json_loads(IF is_white THEN row.avg_accuracy_per_move_white_json
                                            ELSE row.avg_accuracy_per_move_black_json)
        res == _compute_opening_and_after_accuracy(acc.val, self.opening_moves)
        grp == normalize_opening(self, row.opening)
        ws  == _player_win_score(Val(row.result_value), is_white)
    IN  IF IsNone(elo) THEN a
        ELSE IF acc.type # "list" THEN a
        ELSE IF IsNone(res) THEN a
        ELSE LET bracket == _elo_bracket(Val(elo))
                 a1 == add_sample(a, Val(row.time_control), bracket, GroupAll,
                                  Val(res)[1], Val(res)[2], ws)
             IN  IF grp[1] \/ self.include_unknown_opening
                 THEN add_sample(a1, Val(row.time_control), bracket,
                                 IF grp[1] THEN grp[2] ELSE GroupUnknown,
                                 Val(res)[1], Val(res)[2], ws)
                 ELSE a1

\* round(x, 6) of a non-negative fraction, ties to even
Round6(r) ==
    LET scaled == r.num * 1000000
        q      == scaled \div r.den
        rem    == scaled % r.den
        up     == 2 * rem > r.den \/ (2 * rem = r.den /\ q % 2 = 1)
    IN  Rat(IF up THEN q + 1 ELSE q, 1000000)

winrate_matrix(cell) ==
    [y \in 0..9 |-> [x \in 0..9 |->
        IF cell.counts[y][x] <= 0 THEN PyFloat(RatOfInt(0))
        ELSE PyFloat(Round6(Rat(cell.win_sums[y][x].num,
                                cell.win_sums[y][x].den * cell.counts[y][x])))]]

samples_matrix(cell) == [y \in 0..9 |-> [x \in 0..9 |-> PyInt(cell.counts[y][x])]]

\* others.sort(key=lambda t: t[1].total, reverse=True) : stable
RECURSIVE SortByTotalDesc(_)
SortByTotalDesc(items) ==
    IF items = << >> THEN << >>
    ELSE LET top == MaxOf({ items[i][2].total : i \in 1..Len(items) })
             k   == MinOf({ i \in 1..Len(items) : items[i][2].total = top })
         IN  << items[k] >>
               \o SortByTotalDesc(SubSeq(items, 1, k - 1) \o SubSeq(items, k + 1, Len(items)))

\* mutant of FilteredItems: the other groups are truncated without being
\* sorted by total
FilteredItems_Mut(self, by_opening) ==
    LET kept   == SelectSeq(by_opening,
                      LAMBDA it : it[1] = GroupAll \/ it[2].total >= self.min_samples_per_opening)
        all    == SelectSeq(kept, LAMBDA it : it[1] = GroupAll)
        others == SelectSeq(kept, LAMBDA it : it[1] # GroupAll)
    IN  IF IsNone(self.max_openings_per_bucket) THEN kept
        ELSE all \o SubSeq(others, 1, MinOf({Len(others), Val(self.max_openings_per_bucket)}))

\* the items of one bracket that are written to the output
FilteredItems(self, by_opening) ==
    LET kept   == SelectSeq(by_opening,
                      LAMBDA it : it[1] = GroupAll \/ it[2].total >= self.min_samples_per_opening)
        all    == SelectSeq(kept, LAMBDA it : it[1] = GroupAll)
        others == SortByTotalDesc(SelectSeq(kept, LAMBDA it : it[1] # GroupAll))
    IN  IF IsNone(self.max_openings_per_bucket) THEN kept
        ELSE all \o SubSeq(others, 1, MinOf({Len(others), Val(self.max_openings_per_bucket)}))

\* out[tc_key][bracket]
BracketDocument(self, by_opening) ==
    LET items == FilteredItems(self, by_opening)
    IN  [i \in 1..Len(items) |->
            << items[i][1],
               [samples      |-> PyInt(items[i][2].total),
                heatmap      |-> winrate_matrix(items[i][2]),
                cell_samples |-> samples_matrix(items[i][2])] >>]

\* mutant of BuildDocument: every time control is written with all five
\* brackets, the brackets without sample holding no group
BuildDocument_Mut(self, a) ==
    [i \in 1..Len(a) |->
        << Lower(a[i][1]),
           [j \in 1..5 |->
               LET b == <<"0-500", "500-1000", "1000-1500", "1500-2000", "2000+">>[j]
               IN  << b, IF IsNone(DictGet(a[i][2], b)) THEN << >>
                         ELSE BracketDocument(self, Val(DictGet(a[i][2], b))) >>] >>]

\* the returned document out[tc_key][bracket][name]
BuildDocument(self, a) ==
    [i \in 1..Len(a) |->
        << Lower(a[i][1]),
           [j \in 1..Len(a[i][2]) |->
               << a[i][2][j][1], BracketDocument(self, a[i][2][j][2]) >>] >>]

NeededColumns ==
    { "time_control", "opening", "white_elo", "black_elo", "result_value",
      "avg_accuracy_per_move_white_json", "avg_accuracy_per_move_black_json" }

\* needed, in the order of the list
needed ==
    << "time_control", "opening", "white_elo", "black_elo", "result_value",
       "avg_accuracy_per_move_white_json", "avg_accuracy_per_move_black_json" >>

\* mutant of MissingOf: only the first missing column is reported
MissingOf_Mut(columns) ==
    LET all == SelectSeq(needed, LAMBDA c : c \notin columns)
    IN  IF all = << >> THEN << >> ELSE << all[1] >>

\* missing = [c for c in needed if c not in df.columns]
MissingOf(columns) == SelectSeq(needed, LAMBDA c : c \notin columns)

MaxRows == 2

\* the attributes of the builder
SelfSet ==
    [opening_moves : {1, 2},
     include_unknown_opening : BOOLEAN,
     max_openings_per_bucket : {None, Some(1)},
     min_samples_per_opening : {1, 2},
     group_unlisted_to_other : BOOLEAN,
     other_label : { <<"O", "t", "h", "e", "r">> }]

\* the input tables: None, or the columns and the height of the table; the
\* rows are drawn when the loop reads them.  The table without column and
\* without row is the pl.DataFrame() Loader.load returns when the folder
\* holds no parquet file (loader.py:51-58)
DfSet ==
    {None} \cup
    { Some([columns |-> NeededColumns \ miss, height |-> h]) :
        miss \in {{}} \cup { {c} : c \in NeededColumns } \cup {{"opening", "result_value"}},
        h \in 0..MaxRows } \cup
    { Some([columns |-> {}, height |-> 0]) }

Row(tc, opening, w_elo, b_elo, rv, acc_w, acc_b) ==
    [time_control |-> tc, opening |-> opening, white_elo |-> w_elo, black_elo |-> b_elo,
     result_value |-> rv,
     avg_accuracy_per_move_white_json |-> acc_w,
     avg_accuracy_per_move_black_json |-> acc_b]

RowSet ==
    { Row(Some(<<"B", "L", "I", "T", "Z">>), Some(<<"S", "i", "c", "i", "l", "i", "a", "n", " ", "D", "e", "f", "e", "n", "s", "e", ":", " ", "N", "a", "j", "d", "o", "r", "f", " ", "V", "a", "r", "i", "a", "t", "i", "o", "n">>), Some(1600), Some(1400),
          Some(1), Some(JsonList(<<90, 80, 70, 60>>)), Some(JsonList(<<60, 70, 80>>))),
      Row(Some(<<"B", "L", "I", "T", "Z">>), Some(<<"R", "u", "y", " ", "L", "o", "p", "e", "z">>), Some(1600), Some(1600),
          Some(0), Some(JsonList(<<90, 80>>)), Some(JsonList(<<50, 100, 100>>))),
      Row(Some(<<"B", "L", "I", "T", "Z">>), Some(<<"F", "r", "e", "n", "c", "h", " ", "D", "e", "f", "e", "n", "s", "e">>), Some(1600), Some(1600),
          Some(-1), Some(JsonObject), Some(JsonList(<<90, 90, 10>>))),
      Row(Some(<<"B", "L", "I", "T", "Z">>), None, Some(2100), None,
          Some(-1), Some(JsonList(<<60, 70, 80>>)), Some(JsonList(<<60, 70, 80>>))),
      Row(Some(<<"R", "A", "P", "I", "D">>), Some(<<" ", "Z", "u", "k", "e", "r", "t", "o", "r", "t", " ", "O", "p", "e", "n", "i", "n", "g", " ">>), Some(400), Some(999),
          Some(1), Some(JsonList(<<90, 80, 70, 60>>)), None),
      Row(Some(<<"B", "L", "I", "T", "Z">>), Some(<<":", " ", "N", "a", "j", "d", "o", "r", "f", " ", "V", "a", "r", "i", "a", "t", "i", "o", "n">>), Some(1600), Some(1600),
          Some(1), Some(JsonList(<<0, 0, 90>>)), Some(JsonList(<<90, 80, 70, 60>>))),
      Row(Some(<<"C", "L", "A", "S", "S", "I", "C", "A", "L">>), Some(<<"R", "u", "y", " ", "L", "o", "p", "e", "z">>), Some(1600), Some(1600),
          Some(1), Some(JsonList(<<90, 80, 70, 60>>)), Some(JsonList(<<60, 70, 80>>))),
      Row(Some(<<"B", "L", "I", "T", "Z">>), Some(<<"A", "l", "l">>), Some(1600), Some(1400),
          Some(1), Some(JsonList(<<90, 80, 70, 60>>)), Some(JsonList(<<60, 70, 80>>))),
      Row(None, Some(<<"R", "u", "y", " ", "L", "o", "p", "e", "z">>), Some(1600), Some(1600),
          Some(1), Some(JsonList(<<90, 80, 70, 60>>)), Some(JsonList(<<60, 70, 80>>))),
      Row(Some(<<"B", "L", "I", "T", "Z">>), Some(<<"R", "u", "y", " ", "L", "o", "p", "e", "z">>), Some(1600), Some(1600),
          None, Some(JsonList(<<90, 80, 70, 60>>)), Some(JsonList(<<60, 70, 80>>))) }

heatOthers == <<splitVars, moveVars, gameVars, openingVars, popVars, explorerVars, registryVars, exportVars, cliVars, tcVars, binVars, tzVars>>

HeatInit ==
    /\ SplitIdle /\ MovesIdle /\ GamesIdle /\ OpeningIdle /\ PopIdle /\ ExplorerIdle /\ RegistryIdle /\ ExportIdle /\ CliIdle /\ TcIdle /\ BinIdle /\ TzIdle
    /\ hb_self \in SelfSet
    /\ hb_df \in DfSet
    /\ hb_pc = "start"
    /\ hb_i = 0
    /\ hb_row = None
    /\ agg = << >>
    /\ hb_out = None
    /\ hb_raised = None

\* if df is None or df.is_empty(): return {}
HeatReturnEmpty ==
    /\ hb_pc = "start"
    /\ IF IsNone(hb_df) THEN TRUE ELSE Val(hb_df).height = 0
    /\ hb_out' = Some(<< >>)
    /\ hb_pc' = "done"
    /\ UNCHANGED <<hb_self, hb_df, hb_i, hb_row, agg, hb_raised, heatOthers>>

\* if missing: raise ValueError(...)
HeatMissingColumns ==
    /\ hb_pc = "start"
    /\ ~IsNone(hb_df) /\ Val(hb_df).height # 0
    /\ MissingOf(Val(hb_df).columns) # << >>
    /\ hb_raised' = Some([exc |-> "ValueError", missing |-> MissingOf(Val(hb_df).columns)])
    /\ hb_pc' = "raised"
    /\ UNCHANGED <<hb_self, hb_df, hb_i, hb_row, agg, hb_out, heatOthers>>

\* sub = df.select(needed) ... agg = {}
HeatBegin ==
    /\ hb_pc = "start"
    /\ ~IsNone(hb_df) /\ Val(hb_df).height # 0
    /\ NeededColumns \subseteq Val(hb_df).columns
    /\ agg' = << >>
    /\ hb_i' = 0
    /\ hb_pc' = "rows"
    /\ UNCHANGED <<hb_self, hb_df, hb_row, hb_out, hb_raised, heatOthers>>

\* for i in range(n) takes the next row
TakeRow(row) ==
    /\ hb_pc = "rows"
    /\ hb_i < Val(hb_df).height
    /\ hb_i' = hb_i + 1
    /\ hb_row' = Some(row)
    /\ UNCHANGED <<hb_self, hb_df, hb_pc, hb_out>>

\* not tc or tc not in self.ALLOWED_TIME_CONTROLS
TimeControlRejected(row) ==
    IF IsNone(row.time_control) THEN TRUE
    ELSE IF Val(row.time_control) = << >> THEN TRUE
    ELSE Val(row.time_control) \notin ALLOWED_TIME_CONTROLS

\* if not tc or tc not in self.ALLOWED_TIME_CONTROLS: continue
HeatRowSkipTimeControl ==
    /\ \E row \in RowSet :
          /\ TakeRow(row)
          /\ TimeControlRejected(row)
    /\ UNCHANGED <<agg, hb_raised, heatOthers>>

\* if rv is None: continue
HeatRowSkipResult ==
    /\ \E row \in RowSet :
          /\ TakeRow(row)
          /\ ~TimeControlRejected(row)
          /\ IsNone(row.result_value)
    /\ UNCHANGED <<agg, hb_raised, heatOthers>>

\* the WHITE sample and the BLACK sample of the row
HeatRowSamples ==
    /\ \E row \in RowSet :
          /\ TakeRow(row)
          /\ ~TimeControlRejected(row)
          /\ ~IsNone(row.result_value)
          /\ agg' = PlayerSample(PlayerSample(agg, hb_self, row, TRUE), hb_self, row, FALSE)
    /\ UNCHANGED <<hb_raised, heatOthers>>

\* the output loop and return out
HeatReturnDocument ==
    /\ hb_pc = "rows"
    /\ hb_i = Val(hb_df).height
    /\ hb_out' = Some(BuildDocument(hb_self, agg))
    /\ hb_pc' = "done"
    /\ UNCHANGED <<hb_self, hb_df, hb_i, hb_row, agg, hb_raised, heatOthers>>

HeatNext ==
    \/ HeatReturnEmpty
    \/ HeatMissingColumns
    \/ HeatBegin
    \/ HeatRowSkipTimeControl
    \/ HeatRowSkipResult
    \/ HeatRowSamples
    \/ HeatReturnDocument

SpecHeat == HeatInit /\ [][HeatNext]_vars

\* ---- properties of the heatmap builder ----

\* the entries out[tc][bracket][name] of the returned document
OutEntries ==
    IF hb_pc # "done" THEN {}
    ELSE LET out == Val(hb_out)
         IN  UNION { UNION { { out[i][2][j][2][k][2] : k \in 1..Len(out[i][2][j][2]) } :
                             j \in 1..Len(out[i][2]) } :
                     i \in 1..Len(out) }

RECURSIVE SumOver(_, _)
SumOver(f, S) ==
    IF S = {} THEN 0
    ELSE LET e == CHOOSE e \in S : TRUE IN f[e] + SumOver(f, S \ {e})

Cells == (0..9) \X (0..9)

\* the sum of f over the 100 cells, row by row
CellSum(f) ==
    SumOver([y \in 0..9 |-> SumOver([x \in 0..9 |-> f[<<y, x>>]], 0..9)], 0..9)

IsTriplet(v) == v.type = "list" /\ Len(v.val) = 3

\* component i of the triplets of an entry, a value that is no triplet
\* counting 0
TripletSum(entry, i) ==
    CellSum([c \in Cells |-> IF IsTriplet(entry.cell_samples[c[1]][c[2]])
                             THEN entry.cell_samples[c[1]][c[2]].val[i] ELSE 0])

FiveBrackets == { "0-500", "500-1000", "1000-1500", "1500-2000", "2000+" }

\* the bracket keys of the i-th time control of the returned document
OutBracketKeys(i) ==
    { Val(hb_out)[i][2][j][1] : j \in 1..Len(Val(hb_out)[i][2]) }

\* the brackets of the i-th time control of agg whose "All" cell holds a
\* sample
SampledBrackets(i) ==
    { b \in FiveBrackets :
        \E j \in 1..Len(agg[i][2]) :
            /\ agg[i][2][j][1] = b
            /\ ~IsNone(DictGet(agg[i][2][j][2], GroupAll))
            /\ Val(DictGet(agg[i][2][j][2], GroupAll)).total >= 1 }

\* C11 as stated: the returned document holds all five bracket keys under
\* every time control, and still holds the five bracket keys when the input
\* table is empty.
C11_AllFiveBracketsPresent ==
    hb_pc = "done" =>
        /\ Val(hb_out) # << >>
        /\ \A i \in 1..Len(Val(hb_out)) : OutBracketKeys(i) = FiveBrackets

\* C11 (amended): under every time control of the returned document the
\* bracket keys are exactly the brackets that received a sample, the time
\* controls are those that received a sample, and on a missing or empty
\* input table the document is empty, with no time control and no bracket
\* key.
C11_OnlySampledBracketsPresent ==
    hb_pc = "done" =>
        IF IsNone(hb_df) THEN Val(hb_out) = << >>
        ELSE IF Val(hb_df).height = 0 THEN Val(hb_out) = << >>
        ELSE /\ Len(Val(hb_out)) = Len(agg)
             /\ \A i \in 1..Len(agg) :
                   /\ Val(hb_out)[i][1] = Lower(agg[i][1])
                   /\ OutBracketKeys(i) = SampledBrackets(i)
                   /\ OutBracketKeys(i) # {}

\* a time control of the returned document holds two of the five brackets
C11_Witness ==
    /\ hb_pc = "done"
    /\ \E i \in 1..Len(Val(hb_out)) : Cardinality(OutBracketKeys(i)) = 2

\* the groups of out[tc][bracket], in order
OutGroups(i, j) ==
    [k \in 1..Len(Val(hb_out)[i][2][j][2]) |-> Val(hb_out)[i][2][j][2][k][1]]

\* the groups of a sequence, as a set
GroupSet(names) == { names[k] : k \in 1..Len(names) }

\* the groups of agg[tc][bracket] other than "All" that pass the
\* min-samples filter
EligibleGroups(i, j) ==
    { agg[i][2][j][2][k][1] : k \in { k \in 1..Len(agg[i][2][j][2]) :
          /\ agg[i][2][j][2][k][1] # GroupAll
          /\ agg[i][2][j][2][k][2].total >= hb_self.min_samples_per_opening } }

TotalOf(i, j, name) == Val(DictGet(agg[i][2][j][2], name)).total

\* C12: for every (time_control, bracket) that received a sample "All" is
\* present whatever min_samples_per_opening and max_openings_per_bucket are;
\* every other group present has total >= min_samples_per_opening; with
\* max_openings_per_bucket = N at most N groups other than "All" are present
\* and no dropped group that passed the min-samples filter has a strictly
\* larger total than a kept one.
C12_AllKeptOthersFilteredTopN ==
    (hb_pc = "done" /\ Val(hb_out) # << >>) =>
        \A i \in 1..Len(agg) : \A j \in 1..Len(agg[i][2]) :
            LET kept   == GroupSet(OutGroups(i, j))
                others == kept \ {GroupAll}
            IN  /\ Val(hb_out)[i][2][j][1] = agg[i][2][j][1]
                /\ GroupAll \in kept
                /\ Len(OutGroups(i, j)) = Cardinality(kept)
                /\ others \subseteq EligibleGroups(i, j)
                /\ \A g \in kept :
                      Val(DictGet(Val(hb_out)[i][2][j][2], g)).samples.val = TotalOf(i, j, g)
                /\ IF IsNone(hb_self.max_openings_per_bucket)
                   THEN others = EligibleGroups(i, j)
                   ELSE /\ Cardinality(others) <= Val(hb_self.max_openings_per_bucket)
                        /\ Cardinality(others) =
                              MinOf({ Cardinality(EligibleGroups(i, j)),
                                      Val(hb_self.max_openings_per_bucket) })
                        /\ \A d \in EligibleGroups(i, j) \ others : \A g \in others :
                              TotalOf(i, j, d) <= TotalOf(i, j, g)

\* with max_openings_per_bucket = 1 a bucket held two groups besides "All";
\* the group inserted first, with the smaller total, was dropped and the
\* larger one kept
C12_Witness ==
    /\ hb_pc = "done"
    /\ hb_self.max_openings_per_bucket = Some(1)
    /\ \E i \in 1..Len(agg) : \E j \in 1..Len(agg[i][2]) :
          /\ Cardinality(EligibleGroups(i, j)) = 2
          /\ \E d \in EligibleGroups(i, j) : \E g \in EligibleGroups(i, j) :
                /\ TotalOf(i, j, d) < TotalOf(i, j, g)
                /\ g \in GroupSet(OutGroups(i, j))
                /\ d \notin GroupSet(OutGroups(i, j))


\* ------------------------------------------------------------------------
\* Popularity builder (popularity_builder.py)
\* ------------------------------------------------------------------------
\* The polars expressions are computed row by row; a null is None.  The
\* order of the groups of group_by and of equal keys of sort is not
\* specified by polars: the returned document is a set of buckets
\* [tc_key, bracket, entries] and the entries of a bucket are in any order
\* that is descending in popularity.

\* first index of p in s, 0 when p does not occur
FindSub(s, p) ==
    LET hit == { i \in 1..(Len(s) - Len(p) + 1) : SubSeq(s, i, i + Len(p) - 1) = p }
    IN  IF hit = {} THEN 0 ELSE MinOf(hit)

\* str.replace(r"\s#\d+", "") : the first blank, "#", digits is removed
RemoveHashNumber(s) ==
    LET hit == { i \in 1..(Len(s) - 2) :
                    s[i] \in {" ", "\t", "\r", "\n"} /\ s[i + 1] = "#" /\ s[i + 2] \in Digits }
    IN  IF hit = {} THEN s
        ELSE LET i  == MinOf(hit)
                 nd == { k \in (i + 2)..Len(s) : s[k] \notin Digits }
                 j  == IF nd = {} THEN Len(s) + 1 ELSE MinOf(nd)
             IN  SubSeq(s, 1, i - 1) \o SubSeq(s, j, Len(s))

QueensGambit == <<"Q", "u", "e", "e", "n", "'", "s", " ", "G", "a", "m", "b", "i", "t">>

QueensPawn == <<"Q", "u", "e", "e", "n", "'", "s", " ", "P", "a", "w", "n">>

\* str.replace(r"Queen's Gambit.*", "Queen's Gambit")
CutAfterQueensGambit(s) ==
    IF FindSub(s, QueensGambit) = 0 THEN s
    ELSE SubSeq(s, 1, FindSub(s, QueensGambit) + Len(QueensGambit) - 1)

\* str.replace(r"Queen's Pawn", "Queen's Pawn Game")
ExpandQueensPawn(s) ==
    IF FindSub(s, QueensPawn) = 0 THEN s
    ELSE LET e == FindSub(s, QueensPawn) + Len(QueensPawn) - 1
         IN  SubSeq(s, 1, e) \o <<" ", "G", "a", "m", "e">> \o SubSeq(s, e + 1, Len(s))

\* the opening_root column, as an Optional
OpeningRootOf(opening) ==
    IF IsNone(opening) THEN None
    ELSE Some(Strip(ExpandQueensPawn(CutAfterQueensGambit(
                  RemoveHashNumber(Split(Val(opening), ":")[1])))))

\* the rating_bracket column; a null average_elo fails every comparison and
\* reaches otherwise()
RatingBracketOf(average_elo) ==
    IF IsNone(average_elo) THEN "2000+"
    ELSE IF Val(average_elo) < 500 THEN "0-500"
    ELSE IF Val(average_elo) < 1000 THEN "500-1000"
    ELSE IF Val(average_elo) < 1500 THEN "1000-1500"
    ELSE IF Val(average_elo) < 2000 THEN "1500-2000"
    ELSE "2000+"

BlackTokens ==
    { <<"d", "e", "f", "e", "n", "s", "e">>, <<"i", "n", "d", "i", "a", "n">>, <<"s", "c", "a", "n", "d", "i", "n", "a", "v", "i", "a", "n">>, <<"p", "i", "r", "c">>, <<"c", "a", "r", "o", "-", "k", "a", "n", "n">>, <<"b", "e", "n", "o", "n", "i">>,
      <<"c", "z", "e", "c", "h">>, <<"o", "w", "e", "n">>, <<"p", "h", "i", "l", "i", "d", "o", "r">>, <<"p", "e", "t", "r", "o", "v">>, <<"a", "l", "e", "k", "h", "i", "n", "e">>, <<"m", "o", "d", "e", "r", "n">>,
      <<"d", "u", "t", "c", "h">>, <<"s", "l", "a", "v">> }

\* mutant of TrueColorOf: every opening is a White opening
TrueColorOf_Mut(root) == "white"

\* the true_color column
TrueColorOf(root) ==
    IF IsNone(root) THEN "white"
    ELSE IF \E t \in BlackTokens : Contains(Lower(Val(root)), t) THEN "black"
    ELSE "white"

\* the derived columns of one row that passed the time-control filter
PopDerivedRow(r) ==
    [time_control   |-> Val(r.time_control),
     opening_root   |-> OpeningRootOf(r.opening),
     rating_bracket |-> RatingBracketOf(r.average_elo),
     true_color     |-> TrueColorOf(OpeningRootOf(r.opening)),
     result_value   |-> r.result_value]

\* number of entries of a sequence that satisfy a test
CountIf(seq, Test(_)) == Len(SelectSeq(seq, Test))

\* mutant of TotalInGroup: the rows are counted per time control only
TotalInGroup_Mut(d, tc, bracket) ==
    CountIf(d, LAMBDA r : r.time_control = tc)

\* totals : total_in_group of (time_control, rating_bracket)
TotalInGroup(d, tc, bracket) ==
    CountIf(d, LAMBDA r : r.time_control = tc /\ r.rating_bracket = bracket)

IsListed(root) == IF IsNone(root) THEN FALSE ELSE Val(root) \in OPENING_WHITELIST

\* the opening_name column: unlisted roots become the other label, or their
\* rows are filtered out
PopNamed(self, d) ==
    LET kept == IF self.group_unlisted_to_other THEN d
                ELSE SelectSeq(d, LAMBDA r : IsListed(r.opening_root))
    IN  [i \in 1..Len(kept) |->
            [time_control   |-> kept[i].time_control,
             rating_bracket |-> kept[i].rating_bracket,
             true_color     |-> kept[i].true_color,
             result_value   |-> kept[i].result_value,
             opening_name   |-> IF IsListed(kept[i].opening_root)
                                THEN Val(kept[i].opening_root) ELSE self.other_label]]

\* Float64.round(4) of a non-negative fraction, ties away from zero
Round4(r) ==
    LET scaled == r.num * 10000
        q      == scaled \div r.den
        rem    == scaled % r.den
    IN  Rat(IF 2 * rem >= r.den THEN q + 1 ELSE q, 10000)

\* mutant of PopEntry: the draw rate is replaced by the white rate
PopEntry_Mut(named, total, key) ==
    LET rows  == SelectSeq(named, LAMBDA r :
                     <<r.time_control, r.rating_bracket, r.opening_name, r.true_color>> = key)
        count == Len(rows)
        wins(v) == CountIf(rows, LAMBDA r : r.result_value = Some(v))
    IN  [name       |-> key[3],
         popularity |-> Round4(Rat(count, total)),
         color      |-> key[4],
         count      |-> count,
         win_rate   |-> << Round4(Rat(wins(1), count)), Round4(Rat(wins(1), count)),
                           Round4(Rat(wins(-1), count)) >>]

\* one row of final_stats: the group (time_control, rating_bracket,
\* opening_name, true_color) with its aggregates and rates
PopEntry(named, total, key) ==
    LET rows  == SelectSeq(named, LAMBDA r :
                     <<r.time_control, r.rating_bracket, r.opening_name, r.true_color>> = key)
        count == Len(rows)
        wins(v) == CountIf(rows, LAMBDA r : r.result_value = Some(v))
    IN  [name       |-> key[3],
         popularity |-> Round4(Rat(count, total)),
         color      |-> key[4],
         count      |-> count,
         win_rate   |-> << Round4(Rat(wins(1), count)), Round4(Rat(wins(0), count)),
                           Round4(Rat(wins(-1), count)) >>]

\* the (time_control, rating_bracket) pairs of final_stats
PopBuckets(named) ==
    { <<named[i].time_control, named[i].rating_bracket>> : i \in 1..Len(named) }

\* the rows of final_stats of one bucket that pass the min-samples filter
PopKept(self, d, named, bucket) ==
    LET keys == { <<named[i].time_control, named[i].rating_bracket,
                    named[i].opening_name, named[i].true_color>> :
                  i \in { i \in 1..Len(named) :
                            <<named[i].time_control, named[i].rating_bracket>> = bucket } }
        all  == { PopEntry(named, TotalInGroup(d, bucket[1], bucket[2]), k) : k \in keys }
    IN  { e \in all : e.count >= self.min_samples_per_opening }

\* the orders sort("popularity", descending=True) can leave a set of rows in
SortedByPopularity(S) ==
    { s \in [1..Cardinality(S) -> S] :
        /\ \A i \in 1..Cardinality(S) : \A j \in 1..Cardinality(S) : i # j => s[i] # s[j]
        /\ \A i \in 1..Cardinality(S) : \A j \in 1..Cardinality(S) :
              i < j => ~RatLess(s[i].popularity, s[j].popularity) }

\* processed_group.head(max_openings_per_bucket)
PopHead(self, entries) ==
    IF IsNone(self.max_openings_per_bucket) THEN entries
    ELSE SubSeq(entries, 1, MinOf({Len(entries), Val(self.max_openings_per_bucket)}))

MaxPopRows == 3

PopSelfSet ==
    [max_openings_per_bucket : {None, Some(1)},
     min_samples_per_opening : {0, 2},
     group_unlisted_to_other : BOOLEAN,
     other_label : { <<"O", "t", "h", "e", "r">> }]

PopRow(tc, opening, elo, rv) ==
    [time_control |-> tc, opening |-> opening, average_elo |-> elo, result_value |-> rv]

PopRowSet ==
    { PopRow(Some(<<"B", "L", "I", "T", "Z">>), Some(<<"S", "i", "c", "i", "l", "i", "a", "n", " ", "D", "e", "f", "e", "n", "s", "e", ":", " ", "N", "a", "j", "d", "o", "r", "f", " ", "V", "a", "r", "i", "a", "t", "i", "o", "n">>), Some(1600), Some(1)),
      PopRow(Some(<<"B", "L", "I", "T", "Z">>), Some(<<"S", "i", "c", "i", "l", "i", "a", "n", " ", "D", "e", "f", "e", "n", "s", "e", " ", "#", "2">>), Some(1600), Some(0)),
      PopRow(Some(<<"B", "L", "I", "T", "Z">>), Some(<<"R", "u", "y", " ", "L", "o", "p", "e", "z">>), Some(1600), Some(-1)),
      PopRow(Some(<<"B", "L", "I", "T", "Z">>), Some(<<"Q", "u", "e", "e", "n", "'", "s", " ", "G", "a", "m", "b", "i", "t", " ", "D", "e", "c", "l", "i", "n", "e", "d", ":", " ", "E", "x", "c", "h", "a", "n", "g", "e", " ", "V", "a", "r", "i", "a", "t", "i", "o", "n">>), Some(2100), Some(1)),
      PopRow(Some(<<"B", "L", "I", "T", "Z">>), Some(<<"Z", "u", "k", "e", "r", "t", "o", "r", "t", " ", "O", "p", "e", "n", "i", "n", "g">>), Some(1600), Some(0)),
      PopRow(Some(<<"B", "L", "I", "T", "Z">>), Some(<<"N", "i", "m", "z", "o", "w", "i", "t", "s", "c", "h", " ", "D", "e", "f", "e", "n", "s", "e", ":", " ", "K", "e", "n", "n", "e", "d", "y", " ", "V", "a", "r", "i", "a", "t", "i", "o", "n">>), Some(1600), Some(-1)),
      PopRow(Some(<<"R", "A", "P", "I", "D">>), Some(<<"Q", "u", "e", "e", "n", "'", "s", " ", "P", "a", "w", "n", " ", "G", "a", "m", "e", ":", " ", "L", "o", "n", "d", "o", "n", " ", "S", "y", "s", "t", "e", "m">>), None, Some(1)),
      PopRow(Some(<<"C", "L", "A", "S", "S", "I", "C", "A", "L">>), None, Some(400), Some(-1)) }

\* df.filter(pl.col("time_control").is_in(ALLOWED_TIME_CONTROLS))
PopAllowed(r) ==
    IF IsNone(r.time_control) THEN FALSE ELSE Val(r.time_control) \in ALLOWED_TIME_CONTROLS

\* PopDerivedRow over the rows of the model, computed once
PopDerivedOf == [r \in { x \in PopRowSet : PopAllowed(x) } |-> PopDerivedRow(r)]

\* the filtered table with the derived columns added
PopDerived(df) ==
    LET kept == SelectSeq(df, PopAllowed)
    IN  [i \in 1..Len(kept) |-> PopDerivedOf[kept[i]]]

popOthers == <<splitVars, moveVars, gameVars, openingVars, heatVars, explorerVars, registryVars, exportVars, cliVars, tcVars, binVars, tzVars>>

PopInit ==
    /\ SplitIdle /\ MovesIdle /\ GamesIdle /\ OpeningIdle /\ HeatIdle /\ ExplorerIdle /\ RegistryIdle /\ ExportIdle /\ CliIdle /\ TcIdle /\ BinIdle /\ TzIdle
    /\ pb_self \in PopSelfSet
    /\ pb_df \in BSeq(PopRowSet, MaxPopRows)
    /\ pb_pc = "start"
    /\ pb_out = None

\* build(df) : the whole pipeline and return output
PopBuild ==
    /\ pb_pc = "start"
    /\ LET d       == PopDerived(pb_df)
           named   == PopNamed(pb_self, d)
           buckets == PopBuckets(named)
           orders  == UNION { SortedByPopularity(PopKept(pb_self, d, named, b)) : b \in buckets }
       IN  \E ord \in [buckets -> orders] :
              /\ \A b \in buckets : ord[b] \in SortedByPopularity(PopKept(pb_self, d, named, b))
              /\ pb_out' = Some({ [tc_key  |-> Lower(b[1]),
                                   bracket |-> b[2],
                                   entries |-> PopHead(pb_self, ord[b])] : b \in buckets })
    /\ pb_pc' = "done"
    /\ UNCHANGED <<pb_self, pb_df, popOthers>>

PopNext == PopBuild

SpecPop == PopInit /\ [][PopNext]_vars


\* ---- properties of the popularity builder ----

\* the buckets of the returned document
PopOutBuckets == IF pb_pc = "done" THEN Val(pb_out) ELSE {}

\* the number of input rows of a time control and bracket
InputRowsOf(tc_key, bracket) ==
    Cardinality({ i \in 1..Len(pb_df) :
        /\ ~IsNone(pb_df[i].time_control)
        /\ Lower(Val(pb_df[i].time_control)) = tc_key
        /\ RatingBracketOf(pb_df[i].average_elo) = bracket })

RECURSIVE SeqSum(_)
SeqSum(xs) == IF xs = << >> THEN 0 ELSE Head(xs) + SeqSum(Tail(xs))

RECURSIVE RatSeqSum(_)
RatSeqSum(xs) == IF xs = << >> THEN RatOfInt(0) ELSE RatAdd(Head(xs), RatSeqSum(Tail(xs)))

CountSum(b) == SeqSum([i \in 1..Len(b.entries) |-> b.entries[i].count])

PopularitySum(b) == RatSeqSum([i \in 1..Len(b.entries) |-> b.entries[i].popularity])

\* |r - 1| <= slack ten-thousandths, slack counted in halves
WithinOfOne(r, halves) ==
    Abs(r.num - r.den) * 20000 <= halves * r.den

EntryRows(b, e) ==
    SelectSeq(PopNamed(pb_self, PopDerived(pb_df)), LAMBDA r :
        /\ Lower(r.time_control) = b.tc_key /\ r.rating_bracket = b.bracket
        /\ r.opening_name = e.name /\ r.true_color = e.color)

ResultCount(rows, v) == CountIf(rows, LAMBDA r : r.result_value = Some(v))

MaxExplorerRows == 16

RangeOf(xs) == { xs[i] : i \in 1..Len(xs) }

\* the rating_bracket column of the explorer (no "0-500" bracket)
ExplorerBracketOf(average_elo) ==
    IF IsNone(average_elo) THEN "2000+"
    ELSE IF Val(average_elo) < 1000 THEN "500-1000"
    ELSE IF Val(average_elo) < 1500 THEN "1000-1500"
    ELSE IF Val(average_elo) < 2000 THEN "1500-2000"
    ELSE "2000+"

\* the clean_opening column
CleanOpeningOf(opening) == Strip(RemoveHashNumber(Split(opening, ":")[1]))

\* variant_name : the part after the first ":" of the full name, stripped
VariantOf(full_name) ==
    IF full_name # << >> /\ ":" \in RangeOf(full_name)
    THEN LET i == MinOf({ k \in 1..Len(full_name) : full_name[k] = ":" })
         IN  Strip(SubSeq(full_name, i + 1, Len(full_name)))
    ELSE << >>

\* round(3) of a fraction in 0..1
Round3(r) ==
    LET scaled == r.num * 1000
        q      == scaled \div r.den
        rem    == scaled % r.den
    IN  Rat(IF 2 * rem >= r.den THEN q + 1 ELSE q, 1000)

\* mutant of top_k: the width never narrows
top_k_Mut(depth) == 10

\* top_k = 10 if depth < 2 else 3
top_k(depth) == IF depth < 2 THEN 10 ELSE 3

\* df_at_depth : the rows with a non-null move at depth
DfAtDepth(df, depth) ==
    SelectSeq(df, LAMBDA r : IF Len(r.moves_json) > depth
                             THEN ~IsNone(r.moves_json[depth + 1].move) ELSE FALSE)

\* the current_m column
current_m(r, depth) == Val(r.moves_json[depth + 1].move)

\* mutant of SubDf: the rows are not narrowed to those that played m
SubDf_Mut(df_at_depth, depth, m) == df_at_depth

\* df_at_depth.filter(current_m == m)
SubDf(df_at_depth, depth, m) == SelectSeq(df_at_depth, LAMBDA r : current_m(r, depth) = m)

\* the position a value takes among ties: its first or last occurrence
TieRank(xs, x, tie) ==
    IF tie = "first" THEN MinOf({ i \in 1..Len(xs) : xs[i] = x })
    ELSE 0 - MaxOf({ i \in 1..Len(xs) : xs[i] = x })

Occurrences(xs, x) == Cardinality({ i \in 1..Len(xs) : xs[i] = x })

\* group_by(current_m) ... sort("c", descending=True) : the moves, most
\* frequent first
RECURSIVE SortByCountDesc(_, _, _)
SortByCountDesc(S, ms, tie) ==
    IF S = {} THEN << >>
    ELSE LET best == CHOOSE m \in S : \A k \in S \ {m} :
                        \/ Occurrences(ms, m) > Occurrences(ms, k)
                        \/ /\ Occurrences(ms, m) = Occurrences(ms, k)
                           /\ TieRank(ms, m, tie) < TieRank(ms, k, tie)
         IN  << best >> \o SortByCountDesc(S \ {best}, ms, tie)

\* col.mode().first()
ModeFirst(xs, tie) ==
    CHOOSE x \in RangeOf(xs) : \A y \in RangeOf(xs) \ {x} :
        \/ Occurrences(xs, x) > Occurrences(xs, y)
        \/ /\ Occurrences(xs, x) = Occurrences(xs, y)
           /\ TieRank(xs, x, tie) < TieRank(xs, y, tie)

\* .head(n)
HeadN(xs, n) == SubSeq(xs, 1, MinOf({n, Len(xs)}))

\* one node of the tree
ExplorerNode(sub_df, m, tie, children) ==
    LET c == Len(sub_df)
    IN  [move     |-> m,
         name     |-> ModeFirst([i \in 1..c |-> sub_df[i].clean_opening], tie),
         variant  |-> VariantOf(ModeFirst([i \in 1..c |-> sub_df[i].opening], tie)),
         count    |-> c,
         stats    |-> << Round3(Rat(CountIf(sub_df, LAMBDA r : r.result_value = Some(1)), c)),
                         Round3(Rat(CountIf(sub_df, LAMBDA r : r.result_value = Some(0)), c)),
                         Round3(Rat(CountIf(sub_df, LAMBDA r : r.result_value = Some(-1)), c)) >>,
         children |-> IF children = << >> THEN None ELSE Some(children)]

\* _build_recursive(df, depth)
RECURSIVE _build_recursive(_, _, _, _)
_build_recursive(self, df, depth, tie) ==
    IF depth >= self.max_depth \/ df = << >> THEN << >>
    ELSE LET df_at_depth == DfAtDepth(df, depth)
         IN  IF df_at_depth = << >> THEN << >>
             ELSE LET ms    == [i \in 1..Len(df_at_depth) |-> current_m(df_at_depth[i], depth)]
                      stats == HeadN(SortByCountDesc(RangeOf(ms), ms, tie), top_k(depth))
                      kept  == SelectSeq(stats, LAMBDA m : Occurrences(ms, m) >= self.min_games)
                  IN  [i \in 1..Len(kept) |->
                          ExplorerNode(SubDf(df_at_depth, depth, kept[i]), kept[i], tie,
                                       _build_recursive(self, SubDf(df_at_depth, depth, kept[i]),
                                                        depth + 1, tie))]

ExplorerSelfSet == [max_depth : {0, 2, 3, 8}, min_games : {0, 2}]

Mv(m) == [move |-> Some(m), eval |-> None]

NullMv == [move |-> None, eval |-> None]

ExplorerRow(tc, elo, opening, mvs, rv) ==
    [time_control |-> tc, average_elo |-> elo, opening |-> opening,
     moves_json |-> mvs, result_value |-> rv]

Blitz == Some(<<"B", "L", "I", "T", "Z">>)

ExplorerGames ==
    << ExplorerRow(Blitz, Some(1600), <<"Q", "u", "e", "e", "n", "'", "s", " ", "P", "a", "w", "n", " ", "G", "a", "m", "e">>, <<Mv("d4")>>, Some(1)),
       ExplorerRow(Blitz, Some(1600), <<"E", "n", "g", "l", "i", "s", "h", " ", "O", "p", "e", "n", "i", "n", "g">>, <<Mv("c4")>>, Some(0)),
       ExplorerRow(Blitz, Some(1600), <<"Z", "u", "k", "e", "r", "t", "o", "r", "t", " ", "O", "p", "e", "n", "i", "n", "g">>, <<Mv("Nf3")>>, Some(-1)),
       ExplorerRow(Blitz, Some(1600), <<"H", "u", "n", "g", "a", "r", "i", "a", "n", " ", "O", "p", "e", "n", "i", "n", "g">>, <<Mv("g3")>>, Some(1)),
       ExplorerRow(Blitz, Some(1600), <<"N", "i", "m", "z", "o", "-", "L", "a", "r", "s", "e", "n", " ", "A", "t", "t", "a", "c", "k">>, <<Mv("b3")>>, Some(0)),
       ExplorerRow(Blitz, Some(1600), <<"B", "i", "r", "d", " ", "O", "p", "e", "n", "i", "n", "g">>, <<Mv("f4")>>, Some(-1)),
       ExplorerRow(Blitz, Some(1600), <<"V", "a", "n", " ", "G", "e", "e", "t", " ", "O", "p", "e", "n", "i", "n", "g">>, <<Mv("Nc3")>>, Some(1)),
       ExplorerRow(Blitz, Some(1600), <<"P", "o", "l", "i", "s", "h", " ", "O", "p", "e", "n", "i", "n", "g">>, <<Mv("b4")>>, Some(0)),
       ExplorerRow(Blitz, Some(1600), <<"V", "a", "n", "'", "t", " ", "K", "r", "u", "i", "j", "s", " ", "O", "p", "e", "n", "i", "n", "g">>, <<Mv("e3")>>, None),
       ExplorerRow(Blitz, Some(1600), <<"M", "i", "e", "s", "e", "s", " ", "O", "p", "e", "n", "i", "n", "g">>, <<Mv("d3")>>, Some(1)),
       ExplorerRow(Blitz, Some(1600), <<"K", "i", "n", "g", "'", "s", " ", "G", "a", "m", "b", "i", "t">>, <<Mv("e4"), Mv("e5"), Mv("f4")>>, Some(1)),
       ExplorerRow(Blitz, Some(1600), <<"B", "i", "s", "h", "o", "p", "'", "s", " ", "O", "p", "e", "n", "i", "n", "g">>, <<Mv("e4"), Mv("e5"), Mv("Bc4")>>, Some(0)),
       ExplorerRow(Blitz, Some(1600), <<"V", "i", "e", "n", "n", "a", " ", "G", "a", "m", "e">>, <<Mv("e4"), Mv("e5"), Mv("Nc3")>>, Some(-1)),
       ExplorerRow(Blitz, Some(1600), <<"I", "t", "a", "l", "i", "a", "n", " ", "G", "a", "m", "e", ":", " ", "G", "i", "u", "o", "c", "o", " ", "P", "i", "a", "n", "o">>, <<Mv("e4"), Mv("e5"), Mv("Nf3")>>, Some(1)),
       ExplorerRow(Blitz, Some(1600), <<"R", "u", "y", " ", "L", "o", "p", "e", "z", ":", " ", "B", "e", "r", "l", "i", "n", " ", "D", "e", "f", "e", "n", "s", "e", " ", "#", "2">>, <<Mv("e4"), Mv("e5"), Mv("Nf3"), Mv("Nc6")>>, Some(0)),
       ExplorerRow(Blitz, Some(1600), <<"S", "i", "c", "i", "l", "i", "a", "n", " ", "D", "e", "f", "e", "n", "s", "e", " ", "#", "3">>, <<Mv("e4"), Mv("c5"), NullMv, Mv("d4")>>, Some(-1)),
       ExplorerRow(Some(<<"R", "A", "P", "I", "D">>), Some(400), <<"S", "i", "c", "i", "l", "i", "a", "n", " ", "D", "e", "f", "e", "n", "s", "e", ":", " ", "N", "a", "j", "d", "o", "r", "f", " ", "V", "a", "r", "i", "a", "t", "i", "o", "n">>, <<Mv("e4"), Mv("c5")>>, Some(1)),
       ExplorerRow(None, None, <<"F", "r", "e", "n", "c", "h", " ", "D", "e", "f", "e", "n", "s", "e">>, << >>, Some(0)) >>

\* the windows of the game list of at most MaxExplorerRows rows
ExplorerDfSet ==
    { SubSeq(ExplorerGames, w[1], w[1] + w[2] - 1) :
        w \in { v \in (1..Len(ExplorerGames)) \X (0..MaxExplorerRows) :
                   v[1] + v[2] - 1 <= Len(ExplorerGames) } }

\* CleanOpeningOf over the openings of the model, computed once
CleanOpeningTable ==
    [o \in { ExplorerGames[i].opening : i \in 1..Len(ExplorerGames) } |-> CleanOpeningOf(o)]

\* the table after with_columns(rating_bracket, clean_opening)
ExplorerDerived(df) ==
    [i \in 1..Len(df) |->
        [time_control   |-> df[i].time_control,
         rating_bracket |-> ExplorerBracketOf(df[i].average_elo),
         opening        |-> df[i].opening,
         clean_opening  |-> CleanOpeningTable[df[i].opening],
         moves_json     |-> df[i].moves_json,
         result_value   |-> df[i].result_value]]

\* groups : the distinct (time_control, rating_bracket) of the table
ExplorerGroups(d) == { <<d[i].time_control, d[i].rating_bracket>> : i \in 1..Len(d) }

\* subset : the rows of one group
ExplorerSubset(d, g) ==
    SelectSeq(d, LAMBDA r : r.time_control = g[1] /\ r.rating_bracket = g[2])

explorerOthers == <<splitVars, moveVars, gameVars, openingVars, heatVars, popVars, registryVars, exportVars, cliVars, tcVars, binVars, tzVars>>

ExplorerInit ==
    /\ SplitIdle /\ MovesIdle /\ GamesIdle /\ OpeningIdle /\ HeatIdle /\ PopIdle /\ RegistryIdle /\ ExportIdle /\ CliIdle /\ TcIdle /\ BinIdle /\ TzIdle
    /\ ex_self \in ExplorerSelfSet
    /\ ex_df \in ExplorerDfSet
    /\ ex_pc = "start"
    /\ ex_out = None

\* build(df) when a group has a null time_control: g["time_control"].lower()
\* raises AttributeError
ExplorerRaises ==
    /\ ex_pc = "start"
    /\ \E i \in 1..Len(ex_df) : IsNone(ex_df[i].time_control)
    /\ ex_pc' = "raised"
    /\ UNCHANGED <<ex_self, ex_df, ex_out, explorerOthers>>

\* build(df) : one tree per (time_control, rating_bracket)
ExplorerBuild ==
    /\ ex_pc = "start"
    /\ \A i \in 1..Len(ex_df) : ~IsNone(ex_df[i].time_control)
    /\ \E tie \in {"first", "last"} :
          LET d == ExplorerDerived(ex_df)
          IN  ex_out' = Some({ [tc_key  |-> Lower(Val(g[1])),
                                bracket |-> g[2],
                                nodes   |-> _build_recursive(ex_self, ExplorerSubset(d, g), 0, tie)]
                               : g \in ExplorerGroups(d) })
    /\ ex_pc' = "done"
    /\ UNCHANGED <<ex_self, ex_df, explorerOthers>>

ExplorerNext == ExplorerRaises \/ ExplorerBuild

SpecExplorer == ExplorerInit /\ [][ExplorerNext]_vars


\* ---- properties of the opening explorer ----

ExplorerOutBuckets == IF ex_pc = "done" THEN Val(ex_out) ELSE {}

\* the input rows of a bucket whose first moves are those of path
PathRows(b, path) ==
    { i \in 1..Len(ex_df) :
        /\ Lower(Val(ex_df[i].time_control)) = b.tc_key
        /\ ExplorerBracketOf(ex_df[i].average_elo) = b.bracket
        /\ Len(ex_df[i].moves_json) >= Len(path)
        /\ \A k \in 1..Len(path) : ex_df[i].moves_json[k].move = Some(path[k]) }

\* the moves played after path in a bucket
NextMoves(b, path) ==
    { Val(ex_df[i].moves_json[Len(path) + 1].move) :
        i \in { k \in PathRows(b, path) :
                  /\ Len(ex_df[k].moves_json) > Len(path)
                  /\ ~IsNone(ex_df[k].moves_json[Len(path) + 1].move) } }

ChildrenOf(node) == IF IsNone(node.children) THEN << >> ELSE Val(node.children)

\* the node list reached by path, and every list below it, is well formed
RECURSIVE NodeListOK(_, _, _)
NodeListOK(b, nodes, path) ==
    LET d      == Len(path)
        cnt(m) == Cardinality(PathRows(b, Append(path, m)))
        width  == IF d < 2 THEN 10 ELSE 3
        listed == { nodes[i].move : i \in 1..Len(nodes) }
    IN  /\ Len(nodes) <= width
        /\ nodes # << >> => d < ex_self.max_depth
        /\ \A i \in 1..Len(nodes) :
              /\ nodes[i].count = cnt(nodes[i].move)
              /\ nodes[i].count >= 1
              /\ nodes[i].count >= ex_self.min_games
        /\ \A i \in 1..Len(nodes) : \A j \in 1..Len(nodes) :
              i < j => /\ nodes[i].count >= nodes[j].count
                       /\ nodes[i].move # nodes[j].move
        /\ d < ex_self.max_depth =>
              \A m \in NextMoves(b, path) \ listed :
                  \/ cnt(m) < ex_self.min_games
                  \/ /\ Len(nodes) = width
                     /\ cnt(m) <= nodes[Len(nodes)].count
        /\ \A i \in 1..Len(nodes) :
              NodeListOK(b, ChildrenOf(nodes[i]), Append(path, nodes[i].move))

\* C15: in the opening-explorer output every node list at depth d (roots
\* are depth 0) has at most 10 entries if d < 2 and at most 3 otherwise; its
\* entries are the most frequent moves at that depth, in count-descending
\* order; no node has count < min_games; no node exists at depth >= max_depth.
C15_TopKByCountWithinDepth ==
    \A b \in ExplorerOutBuckets : NodeListOK(b, b.nodes, << >>)

\* eleven first moves were played and ten are listed; below two moves four
\* third moves were played and three are listed
C15_Witness ==
    \E b \in ExplorerOutBuckets :
        /\ Cardinality(NextMoves(b, << >>)) = 11
        /\ Len(b.nodes) = 10
        /\ \E i \in 1..Len(b.nodes) : \E j \in 1..Len(ChildrenOf(b.nodes[i])) :
              LET n == ChildrenOf(b.nodes[i])[j]
              IN  /\ Cardinality(NextMoves(b, <<b.nodes[i].move, n.move>>)) = 4
                  /\ Len(ChildrenOf(n)) = 3
                  /\ ChildrenOf(n)[1].count = 2


\* ---------------------------------------------------------------------
\* Builder registry (builder/registry.py)
\*
\* A class is [__name__, builder, own_name]: builder tells whether it derives
\* from BaseBuilder (whose class attribute name is "base", base.py:21) and
\* own_name is the Optional name attribute of its own body, a tagged value
\* [kind |-> "str", val |-> chars] or [kind |-> "int", val |-> <<n>>].
\* ---------------------------------------------------------------------

MaxRegistryOps == 3

PyStr(s) == [kind |-> "str", val |-> s]

PyNone == [kind |-> "none", val |-> << >>]

BuilderClass(cname, builder, own_name) ==
    [__name__ |-> cname, builder |-> builder, own_name |-> own_name]

ClassSet ==
    { BuilderClass(<<"S", "t", "a", "t", "s", "B", "u", "i", "l", "d", "e", "r">>, TRUE, Some(PyStr(<<"s", "t", "a", "t", "s">>))),
      BuilderClass(<<"S", "t", "a", "t", "s", "B", "u", "i", "l", "d", "e", "r", "V", "2">>, TRUE, Some(PyStr(<<"s", "t", "a", "t", "s">>))),
      BuilderClass(<<"P", "o", "p", "u", "l", "a", "r", "i", "t", "y", "B", "u", "i", "l", "d", "e", "r">>, TRUE, Some(PyStr(<<"o", "p", "e", "n", "i", "n", "g", "_", "p", "o", "p", "u", "l", "a", "r", "i", "t", "y">>))),
      BuilderClass(<<"O", "p", "e", "n", "i", "n", "g", "E", "x", "p", "l", "o", "r", "e", "r", "B", "u", "i", "l", "d", "e", "r">>, TRUE, Some(PyStr(<<"o", "p", "e", "n", "i", "n", "g", "_", "e", "x", "p", "l", "o", "r", "e", "r">>))),
      BuilderClass(<<"U", "n", "n", "a", "m", "e", "d">>, TRUE, None),
      BuilderClass(<<"P", "l", "a", "i", "n">>, FALSE, None),
      BuilderClass(<<"E", "m", "p", "t", "y", "N", "a", "m", "e">>, TRUE, Some(PyStr(<< >>))),
      BuilderClass(<<"I", "n", "t", "N", "a", "m", "e">>, TRUE, Some([kind |-> "int", val |-> <<3>>])) }

LookupNameSet == { <<"s", "t", "a", "t", "s">>, <<"o", "p", "e", "n", "i", "n", "g", "_", "p", "o", "p", "u", "l", "a", "r", "i", "t", "y">>, <<"b", "a", "s", "e">>, <<"h", "e", "a", "t", "m", "a", "p">> }

\* getattr(cls, "name", None) : the own attribute, else the one inherited
\* from BaseBuilder, else the default
GetAttrName(cls) ==
    IF ~IsNone(cls.own_name) THEN Val(cls.own_name)
    ELSE IF cls.builder THEN PyStr(<<"b", "a", "s", "e">>)
    ELSE PyNone

\* the code points of the characters of a builder name
NameAlphabet == <<"_", "a", "b", "c", "d", "e", "f", "g", "h", "i", "j", "k", "l", "m", "n", "o", "p", "q", "r", "s", "t", "u", "v", "w", "x", "y", "z">>

CodePoint(c) == CHOOSE i \in 1..Len(NameAlphabet) : NameAlphabet[i] = c

\* a < b on str
RECURSIVE StrLess(_, _)
StrLess(a, b) ==
    IF b = << >> THEN FALSE
    ELSE IF a = << >> THEN TRUE
    ELSE IF Head(a) = Head(b) THEN StrLess(Tail(a), Tail(b))
    ELSE CodePoint(Head(a)) < CodePoint(Head(b))

\* sorted(S) on a set of str
RECURSIVE SortedStrs(_)
SortedStrs(S) ==
    IF S = {} THEN << >>
    ELSE LET least == CHOOSE a \in S : \A b \in S \ {a} : StrLess(a, b)
         IN  << least >> \o SortedStrs(S \ {least})

RegistryKeys(reg) == { reg[i][1] : i \in 1..Len(reg) }

\* not name or not isinstance(name, str)
NameRejected(name) == IF name.kind = "str" THEN name.val = << >> ELSE TRUE

Raised(exc, message) == [raised |-> TRUE, exc |-> exc, value |-> message]

Returned(value) == [raised |-> FALSE, exc |-> "", value |-> value]

\* mutant of register_builder: a name already taken is bound to the new class
register_builder_Mut(reg, cls) ==
    LET name == GetAttrName(cls)
    IN  IF NameRejected(name)
        THEN [registry |-> reg,
              result   |-> Raised("ValueError", <<"B", "u", "i", "l", "d", "e", "r", " ", "c", "l", "a", "s", "s", " ">> \o cls.__name__
                                  \o <<" ", "m", "u", "s", "t", " ", "d", "e", "f", "i", "n", "e", " ", "a", " ", "s", "t", "r", "i", "n", "g", " ", "'", "n", "a", "m", "e", "'", " ", "a", "t", "t", "r", "i", "b", "u", "t", "e", ".">>)]
        ELSE [registry |-> DictSet(reg, name.val, cls), result |-> Returned(cls)]

\* register_builder(cls) : the registry after the call and its outcome
register_builder(reg, cls) ==
    LET name == GetAttrName(cls)
    IN  IF NameRejected(name)
        THEN [registry |-> reg,
              result   |-> Raised("ValueError", <<"B", "u", "i", "l", "d", "e", "r", " ", "c", "l", "a", "s", "s", " ">> \o cls.__name__
                                  \o <<" ", "m", "u", "s", "t", " ", "d", "e", "f", "i", "n", "e", " ", "a", " ", "s", "t", "r", "i", "n", "g", " ", "'", "n", "a", "m", "e", "'", " ", "a", "t", "t", "r", "i", "b", "u", "t", "e", ".">>)]
        ELSE IF name.val \in RegistryKeys(reg)
        THEN [registry |-> reg,
              result   |-> Raised("ValueError", <<"B", "u", "i", "l", "d", "e", "r", " ", "'">> \o name.val
                                  \o <<"'", " ", "a", "l", "r", "e", "a", "d", "y", " ", "r", "e", "g", "i", "s", "t", "e", "r", "e", "d", " ", "b", "y", " ">>
                                  \o Val(DictGet(reg, name.val)).__name__ \o <<".">>)]
        ELSE [registry |-> DictSet(reg, name.val, cls), result |-> Returned(cls)]

\* get_builder(name) : its outcome
get_builder(reg, name) ==
    IF name \notin RegistryKeys(reg)
    THEN Raised("KeyError", <<"U", "n", "k", "n", "o", "w", "n", " ", "b", "u", "i", "l", "d", "e", "r", " ", "'">> \o name \o <<"'", ".", " ", "K", "n", "o", "w", "n", " ", "b", "u", "i", "l", "d", "e", "r", "s", ":", " ">>
                            \o Join(<<",", " ">>, SortedStrs(RegistryKeys(reg))))
    ELSE Returned(Val(DictGet(reg, name)))

\* list_builders()
list_builders(reg) == Returned(SortedStrs(RegistryKeys(reg)))

registryOthers == <<splitVars, moveVars, gameVars, openingVars, heatVars, popVars, explorerVars, exportVars, cliVars, tcVars, binVars, tzVars>>

RegistryInit ==
    /\ SplitIdle /\ MovesIdle /\ GamesIdle /\ OpeningIdle /\ HeatIdle /\ PopIdle /\ ExplorerIdle /\ ExportIdle /\ CliIdle /\ TcIdle /\ BinIdle /\ TzIdle
    /\ rg_registry = << >>
    /\ rg_log = << >>
    /\ rg_last = None
    /\ rg_pc = "ready"

CallsLeft == rg_pc = "ready" /\ Len(rg_log) < MaxRegistryOps

RegisterBuilder(cls) ==
    /\ CallsLeft
    /\ rg_registry' = register_builder(rg_registry, cls).registry
    /\ rg_last' = Some([op |-> "register_builder", arg |-> cls,
                        result |-> register_builder(rg_registry, cls).result])
    /\ rg_log' = Append(rg_log, [op |-> "register_builder", arg |-> cls])
    /\ UNCHANGED <<rg_pc, registryOthers>>

GetBuilder(name) ==
    /\ CallsLeft
    /\ rg_last' = Some([op |-> "get_builder", arg |-> name, result |-> get_builder(rg_registry, name)])
    /\ rg_log' = Append(rg_log, [op |-> "get_builder", arg |-> name])
    /\ UNCHANGED <<rg_registry, rg_pc, registryOthers>>

ListBuilders ==
    /\ CallsLeft
    /\ rg_last' = Some([op |-> "list_builders", arg |-> << >>, result |-> list_builders(rg_registry)])
    /\ rg_log' = Append(rg_log, [op |-> "list_builders", arg |-> << >>])
    /\ UNCHANGED <<rg_registry, rg_pc, registryOthers>>

RegistryNext ==
    \/ \E cls \in ClassSet : RegisterBuilder(cls)
    \/ \E name \in LookupNameSet : GetBuilder(name)
    \/ ListBuilders

SpecRegistry == RegistryInit /\ [][RegistryNext]_vars

\* ---- properties of the registry ----

\* the classes passed to register_builder so far whose name attribute is name
RegisteredUnder(name) ==
    SelectSeq(rg_log, LAMBDA c :
        IF c.op # "register_builder" THEN FALSE
        ELSE IF GetAttrName(c.arg).kind # "str" THEN FALSE
        ELSE GetAttrName(c.arg).val = name)

\* each name of the registry is bound to the first class passed under it
FirstClassKept ==
    \A i \in 1..Len(rg_registry) :
        /\ RegisteredUnder(rg_registry[i][1]) # << >>
        /\ rg_registry[i][2] = RegisteredUnder(rg_registry[i][1])[1].arg

\* what one call may do to the registry
C16_Step ==
    LET call == Val(rg_last')
        name == GetAttrName(call.arg)
    IN  /\ call.op = "register_builder" =>
            IF NameRejected(name)
            THEN call.result.raised /\ rg_registry' = rg_registry
            ELSE IF name.val \in RegistryKeys(rg_registry)
            THEN call.result.raised /\ rg_registry' = rg_registry
            ELSE /\ ~call.result.raised
                 /\ rg_registry' = Append(rg_registry, <<name.val, call.arg>>)
        /\ call.op = "get_builder" =>
            /\ rg_registry' = rg_registry
            /\ IF call.arg \in RegistryKeys(rg_registry)
               THEN ~call.result.raised
               ELSE /\ call.result.raised
                    /\ \A k \in RegistryKeys(rg_registry) : Contains(call.result.value, k)
        /\ call.op = "list_builders" => rg_registry' = rg_registry
        /\ FirstClassKept'

\* C16: register_builder fails when the name attribute of the class is
\* absent, empty or not a string, or when the name is already registered,
\* and a failed registration leaves the registry unchanged; a successful
\* registration adds exactly that name and rebinds or removes no other, so
\* each name maps to the first class registered under it; get_builder of an
\* unregistered name fails with a message listing the known names; a lookup
\* never modifies the registry.
C16_RegistryKeepsFirstBinding == [][C16_Step]_vars

\* a second class was refused under a taken name, and the lookup of an
\* unknown name then failed with the one known name in its message
C16_Witness ==
    /\ Len(rg_log) = 3
    /\ rg_log[2].op = "register_builder"
    /\ rg_log[2].arg.__name__ = <<"S", "t", "a", "t", "s", "B", "u", "i", "l", "d", "e", "r", "V", "2">>
    /\ Len(rg_registry) = 1
    /\ rg_registry[1][2].__name__ = <<"S", "t", "a", "t", "s", "B", "u", "i", "l", "d", "e", "r">>
    /\ Val(rg_last).op = "get_builder"
    /\ Val(rg_last).result.raised
    /\ Val(rg_last).result.value = <<"U", "n", "k", "n", "o", "w", "n", " ", "b", "u", "i", "l", "d", "e", "r", " ", "'", "h", "e", "a", "t", "m", "a", "p", "'", ".", " ", "K", "n", "o", "w", "n", " ", "b", "u", "i", "l", "d", "e", "r", "s", ":", " ", "s", "t", "a", "t", "s">>


\* ---------------------------------------------------------------------
\* Checksum verification (parser/utils.py, Parser._maybe_verify_sha256)
\* ---------------------------------------------------------------------

\* line.split() : the maximal runs of non-blank characters
RECURSIVE SplitWs(_)
SplitWs(s) ==
    LET nz == { i \in 1..Len(s) : ~IsSpace(s[i]) }
    IN  IF nz = {} THEN << >>
        ELSE LET a  == MinOf(nz)
                 sp == { i \in a..Len(s) : IsSpace(s[i]) }
                 b  == IF sp = {} THEN Len(s) + 1 ELSE MinOf(sp)
             IN  << SubSeq(s, a, b - 1) >> \o SplitWs(SubSeq(s, b, Len(s)))

\* load_sha256_sums(sha_file) : filename -> hash, a later line replacing an
\* earlier one
RECURSIVE load_sha256_sums(_)
load_sha256_sums(lines) ==
    IF lines = << >> THEN << >>
    ELSE LET rest  == load_sha256_sums(SubSeq(lines, 1, Len(lines) - 1))
             parts == SplitWs(Strip(lines[Len(lines)]))
             last  == IF parts = << >> THEN << >> ELSE parts[Len(parts)]
             fname == IF StartsWith(last, <<".", "/">>) THEN SubSeq(last, 3, Len(last)) ELSE last
         IN  IF Len(parts) < 2 THEN rest ELSE DictSet(rest, fname, parts[1])

\* the three ways out of _maybe_verify_sha256: no manifest or no entry,
\* digests differ, digests agree
ShaVerdict(manifest, name, actual) ==
    IF IsNone(manifest) THEN "skipped"
    ELSE LET expected == DictGet(load_sha256_sums(Val(manifest)), name)
         IN  IF IsNone(expected) THEN "skipped"
             ELSE IF Val(expected) = << >> THEN "skipped"
             ELSE IF Lower(actual) # Lower(Val(expected)) THEN "mismatch"
             ELSE "verified"

\* pgn_path.name and sha256_file(pgn_path) of the model's input file
SourceName == <<"a", ".", "p", "g", "n", ".", "z", "s", "t">>

ActualDigest == <<"0", "a", "1", "b">>

ManifestSet ==
    { None,
      Some(<< >>),
      Some(<< <<"f", "f", "f", "f", " ", " ", "b", ".", "p", "g", "n", ".", "z", "s", "t">> >>),
      Some(<< <<"0", "a", "1", "b", " ", " ", "a", ".", "p", "g", "n", ".", "z", "s", "t">> >>),
      Some(<< <<"0", "A", "1", "B", " ", " ", ".", "/", "a", ".", "p", "g", "n", ".", "z", "s", "t">> >>),
      Some(<< <<"f", "f", "f", "f", " ", " ", "a", ".", "p", "g", "n", ".", "z", "s", "t">> >>),
      Some(<< <<"a", ".", "p", "g", "n", ".", "z", "s", "t">>, << >>, <<"f", "f", "f", "f", " ", "*", ".", "/", "a", ".", "p", "g", "n", ".", "z", "s", "t">> >>),
      Some(<< <<"f", "f", "f", "f", " ", " ", "a", ".", "p", "g", "n", ".", "z", "s", "t">>, <<"0", "a", "1", "b", " ", " ", "a", ".", "p", "g", "n", ".", "z", "s", "t">> >>) }

\* ShaVerdict over the manifests of the model, computed once
ShaVerdictOf == [m \in ManifestSet |-> ShaVerdict(m, SourceName, ActualDigest)]

\* ---------------------------------------------------------------------
\* Parser.exportAll (parser/parser.py)
\*
\* parse_games is called with a progress hook and yields ParsedGame objects
\* of models.py; a game is held by the fields the exporter reads.  The rows
\* carry the columns site, utc_date, year, time_control, has_eval and
\* source_file.
\* ---------------------------------------------------------------------

MaxGames == 3

TotalBytes == 2

ParsedGameRec(site, utc_date, tc, ev) ==
    [site |-> site, utc_date |-> utc_date, time_control |-> tc, has_eval |-> ev]

ParsedGameSet ==
    { ParsedGameRec("g1", <<"2", "0", "1", "3", ".", "0", "1", ".", "0", "2">>, "BLITZ", TRUE),
      ParsedGameRec("g2", <<"2", "0", "1", "3", ".", "0", "1", ".", "0", "3">>, "BLITZ", FALSE),
      ParsedGameRec("g3", <<"2", "0", "1", "4", ".", "0", "2", ".", "0", "1">>, "OTHER", TRUE),
      ParsedGameRec("g4", <<"?", "?", "?", "?", ".", "?", "?", ".", "?", "?">>, "RAPID", TRUE) }

ParserAllowedTimeControls == {"RAPID", "BLITZ", "BULLET"}

\* _safe_year_from_utc_date
_safe_year_from_utc_date(utc_date) == ParseInt(Split(utc_date, ".")[1])

\* _game_to_row
_game_to_row(g) ==
    [site |-> g.site, utc_date |-> g.utc_date, year |-> _safe_year_from_utc_date(g.utc_date),
     time_control |-> g.time_control, has_eval |-> g.has_eval, source_file |-> SourceName]

\* _game_to_row over the games of the model, computed once
GameRowOf == [g \in ParsedGameSet |-> _game_to_row(g)]

\* mutant of RejectedByEval: the eval filter is applied whatever eval_only is
RejectedByEval_Mut(self, g) == ~g.has_eval

\* self.eval_only and not g.has_eval
RejectedByEval(self, g) == self.eval_only /\ ~g.has_eval

\* self.only_time_control_selection and g.time_control not in ALLOWED_TIME_CONTROLS
RejectedByTimeControl(self, g) ==
    self.only_time_control_selection /\ g.time_control \notin ParserAllowedTimeControls

ExportSelfSet == [eval_only : BOOLEAN, only_time_control_selection : BOOLEAN, sha_check : BOOLEAN]

ExportManifestSet ==
    { None, Some(<< <<"0", "A", "1", "B", " ", " ", ".", "/", "a", ".", "p", "g", "n", ".", "z", "s", "t">> >>), Some(<< <<"f", "f", "f", "f", " ", " ", "a", ".", "p", "g", "n", ".", "z", "s", "t">> >>) }

\* a complete table written by an earlier run
OldFile == [rows |-> << GameRowOf[ParsedGameRec("g3", <<"2", "0", "1", "4", ".", "0", "2", ".", "0", "1">>, "OTHER", TRUE)] >>,
            complete |-> TRUE]

exportOthers == <<splitVars, moveVars, gameVars, openingVars, heatVars, popVars, explorerVars, registryVars, cliVars, tcVars, binVars, tzVars>>

ExportInit ==
    /\ SplitIdle /\ MovesIdle /\ GamesIdle /\ OpeningIdle /\ HeatIdle /\ PopIdle /\ ExplorerIdle /\ RegistryIdle /\ CliIdle /\ TcIdle /\ BinIdle /\ TzIdle
    /\ xp_self \in ExportSelfSet
    /\ xp_progress \in BOOLEAN
    /\ xp_manifest \in ExportManifestSet
    /\ xp_input \in BSeq(ParsedGameSet, MaxGames)
    /\ xp_pos = 0
    /\ xp_rows = << >>
    /\ xp_parsed_total = 0
    /\ xp_kept_total = 0
    /\ xp_bytes_read = 0
    /\ xp_printed = 0
    /\ xp_file \in {None, Some(OldFile)}
    /\ xp_pc = "start"

\* the sha check of exportAll finds a mismatch
ExportMustRaise == xp_self.sha_check /\ ShaVerdictOf[xp_manifest] = "mismatch"

\* lines 89-141 : the output directory, the counters and the sha check
ExportBegin ==
    /\ xp_pc = "start"
    /\ ~ExportMustRaise
    /\ xp_pc' = "loop"
    /\ UNCHANGED <<xp_self, xp_progress, xp_manifest, xp_input, xp_pos, xp_rows, xp_parsed_total,
                   xp_kept_total, xp_bytes_read, xp_printed, xp_file, exportOthers>>

\* lines 139-140, 222-227 : _maybe_verify_sha256 raises ValueError
ExportShaMismatch ==
    /\ xp_pc = "start"
    /\ ExportMustRaise
    /\ xp_pc' = "failed"
    /\ UNCHANGED <<xp_self, xp_progress, xp_manifest, xp_input, xp_pos, xp_rows, xp_parsed_total,
                   xp_kept_total, xp_bytes_read, xp_printed, xp_file, exportOthers>>

\* progress_hook(cur, tot), called by parse_games between two games
ExportProgressHook(cur) ==
    /\ xp_pc = "loop"
    /\ cur > xp_bytes_read
    /\ xp_bytes_read' = cur
    /\ UNCHANGED <<xp_self, xp_progress, xp_manifest, xp_input, xp_pos, xp_rows, xp_parsed_total,
                   xp_kept_total, xp_printed, xp_file, xp_pc, exportOthers>>

\* maybe_print() : nothing without progress; with it a line is written
\* unless the last one is younger than progress_min_interval_s
MaybePrint(force) ==
    IF ~xp_progress THEN xp_printed' = xp_printed
    ELSE IF force THEN xp_printed' = xp_printed + 1
    ELSE xp_printed' \in {xp_printed, xp_printed + 1}

CurGame == xp_input[xp_pos + 1]

InLoop == xp_pc = "loop" /\ xp_pos < Len(xp_input)

\* lines 148-152
ExportSkipNoEval ==
    /\ InLoop
    /\ RejectedByEval(xp_self, CurGame)
    /\ xp_pos' = xp_pos + 1
    /\ xp_parsed_total' = xp_parsed_total + 1
    /\ MaybePrint(FALSE)
    /\ UNCHANGED <<xp_self, xp_progress, xp_manifest, xp_input, xp_rows, xp_kept_total,
                   xp_bytes_read, xp_file, xp_pc, exportOthers>>

\* lines 148-155
ExportSkipTimeControl ==
    /\ InLoop
    /\ ~RejectedByEval(xp_self, CurGame)
    /\ RejectedByTimeControl(xp_self, CurGame)
    /\ xp_pos' = xp_pos + 1
    /\ xp_parsed_total' = xp_parsed_total + 1
    /\ MaybePrint(FALSE)
    /\ UNCHANGED <<xp_self, xp_progress, xp_manifest, xp_input, xp_rows, xp_kept_total,
                   xp_bytes_read, xp_file, xp_pc, exportOthers>>

\* lines 148-159
ExportKeep ==
    /\ InLoop
    /\ ~RejectedByEval(xp_self, CurGame)
    /\ ~RejectedByTimeControl(xp_self, CurGame)
    /\ xp_pos' = xp_pos + 1
    /\ xp_parsed_total' = xp_parsed_total + 1
    /\ xp_kept_total' = xp_kept_total + 1
    /\ xp_rows' = Append(xp_rows, GameRowOf[CurGame])
    /\ MaybePrint(FALSE)
    /\ UNCHANGED <<xp_self, xp_progress, xp_manifest, xp_input, xp_bytes_read, xp_file, xp_pc,
                   exportOthers>>

\* reading the input raises inside parse_games; exportAll has no handler
ExportReadFails ==
    /\ xp_pc = "loop"
    /\ xp_pc' = "failed"
    /\ UNCHANGED <<xp_self, xp_progress, xp_manifest, xp_input, xp_pos, xp_rows, xp_parsed_total,
                   xp_kept_total, xp_bytes_read, xp_printed, xp_file, exportOthers>>

\* lines 161-191 : the stream is exhausted, the last progress line, the table
ExportEndOfStream ==
    /\ xp_pc = "loop"
    /\ xp_pos = Len(xp_input)
    /\ MaybePrint(TRUE)
    /\ xp_pc' = "write"
    /\ UNCHANGED <<xp_self, xp_progress, xp_manifest, xp_input, xp_pos, xp_rows, xp_parsed_total,
                   xp_kept_total, xp_bytes_read, xp_file, exportOthers>>

\* line 193 : write_parquet opens out_path itself, which empties it
ExportWriteOpen ==
    /\ xp_pc = "write"
    /\ xp_file' = Some([rows |-> << >>, complete |-> FALSE])
    /\ xp_pc' = "writing"
    /\ UNCHANGED <<xp_self, xp_progress, xp_manifest, xp_input, xp_pos, xp_rows, xp_parsed_total,
                   xp_kept_total, xp_bytes_read, xp_printed, exportOthers>>

\* lines 193-194 : the table is written out and out_path returned
ExportWriteFinish ==
    /\ xp_pc = "writing"
    /\ xp_file' = Some([rows |-> xp_rows, complete |-> TRUE])
    /\ xp_pc' = "done"
    /\ UNCHANGED <<xp_self, xp_progress, xp_manifest, xp_input, xp_pos, xp_rows, xp_parsed_total,
                   xp_kept_total, xp_bytes_read, xp_printed, exportOthers>>

\* line 193 : the write raises or the process is interrupted; nothing
\* removes or restores out_path
ExportWriteFails ==
    /\ xp_pc = "writing"
    /\ xp_pc' = "failed"
    /\ UNCHANGED <<xp_self, xp_progress, xp_manifest, xp_input, xp_pos, xp_rows, xp_parsed_total,
                   xp_kept_total, xp_bytes_read, xp_printed, xp_file, exportOthers>>

ExportNext ==
    \/ ExportBegin
    \/ ExportShaMismatch
    \/ \E cur \in 1..TotalBytes : ExportProgressHook(cur)
    \/ ExportSkipNoEval
    \/ ExportSkipTimeControl
    \/ ExportKeep
    \/ ExportReadFails
    \/ ExportEndOfStream
    \/ ExportWriteOpen
    \/ ExportWriteFinish
    \/ ExportWriteFails

SpecExport == ExportInit /\ [][ExportNext]_vars


\* ---- properties of the exporter ----

\* a game passes the configured filters
PassesFilters(g) ==
    /\ xp_self.eval_only => g.has_eval
    /\ xp_self.only_time_control_selection => g.time_control \in {"RAPID", "BLITZ", "BULLET"}

\* the rows of the games among the first n yielded that pass the filters,
\* in the order they were yielded
ExpectedRows(n) ==
    LET kept == SelectSeq(SubSeq(xp_input, 1, n), PassesFilters)
    IN  [i \in 1..Len(kept) |-> GameRowOf[kept[i]]]

\* C17: exportAll writes exactly the parsed games that pass the configured
\* filters (eval_only: has_eval; only_time_control_selection: time_control
\* in RAPID, BLITZ, BULLET), one row per kept game, in the order the parser
\* yielded them; the rows depend on the games and the filters only, not on
\* progress reporting; kept_total <= parsed_total throughout the loop.
C17_ExportedRowsAreFilteredGames ==
    xp_pc # "idle" =>
        /\ xp_kept_total <= xp_parsed_total
        /\ xp_parsed_total = xp_pos
        /\ xp_kept_total = Len(xp_rows)
        /\ xp_rows = ExpectedRows(xp_pos)
        /\ xp_pc = "done" =>
              xp_file = Some([rows |-> ExpectedRows(Len(xp_input)), complete |-> TRUE])

\* three games were parsed with progress lines printed and bytes reported;
\* one was dropped by each filter and one row was written
C17_Witness ==
    /\ xp_pc = "done"
    /\ xp_progress /\ xp_printed >= 2 /\ xp_bytes_read = TotalBytes
    /\ xp_self.eval_only /\ xp_self.only_time_control_selection
    /\ xp_parsed_total = 3 /\ xp_kept_total = 1
    /\ \E i \in 1..3 : ~xp_input[i].has_eval
    /\ \E i \in 1..3 : xp_input[i].time_control = "OTHER"
    /\ Len(Val(xp_file).rows) = 1
    /\ Val(xp_file).rows[1].site = xp_input[3].site

\* C18 as stated: if exportAll fails or is interrupted at any point, no
\* partial output file remains at the output path: the file does not
\* exist, is unchanged, or holds the complete exported table.
C18_NoPartialFileOnFailure ==
    xp_pc = "failed" =>
        \/ xp_file = None
        \/ xp_file = Some(OldFile)
        \/ xp_file = Some([rows |-> ExpectedRows(Len(xp_input)), complete |-> TRUE])


\* ---------------------------------------------------------------------
\* Command line entry point (main.py)
\* ---------------------------------------------------------------------

MaxCliGames == 4

\* islice(games_iter, 3)
CliShowLimit == 3

CliGameSet ==
    { ParsedGameRec("g1", <<"2", "0", "1", "3", ".", "0", "1", ".", "0", "2">>, "BLITZ", TRUE),
      ParsedGameRec("g2", <<"2", "0", "1", "3", ".", "0", "1", ".", "0", "3">>, "BLITZ", FALSE) }

\* _maybe_verify_sha256 of main.py : the messages it prints; it returns
\* None on every path
_maybe_verify_sha256(manifest, name, actual) ==
    IF IsNone(manifest) THEN << "WARN sha256sums.txt not found" >>
    ELSE LET expected == DictGet(load_sha256_sums(Val(manifest)), name)
         IN  IF (IF IsNone(expected) THEN TRUE ELSE Val(expected) = << >>)
             THEN << "WARN no SHA entry" >>
             ELSE IF Lower(actual) # Lower(Val(expected))
             THEN << "INFO computing SHA256", "ERROR SHA256 mismatch" >>
             ELSE << "INFO computing SHA256", "OK SHA256 verified" >>

\* _maybe_verify_sha256 over the manifests of the model, computed once
CliShaMessagesOf == [m \in ManifestSet |-> _maybe_verify_sha256(m, SourceName, ActualDigest)]

cliOthers == <<splitVars, moveVars, gameVars, openingVars, heatVars, popVars, explorerVars, registryVars, exportVars, tcVars, binVars, tzVars>>

CliInit ==
    /\ SplitIdle /\ MovesIdle /\ GamesIdle /\ OpeningIdle /\ HeatIdle /\ PopIdle /\ ExplorerIdle /\ RegistryIdle /\ ExportIdle /\ TcIdle /\ BinIdle /\ TzIdle
    /\ cli_args \in [no_sha_check : BOOLEAN, only_eval : BOOLEAN]
    /\ cli_exists \in BOOLEAN
    /\ cli_manifest \in ManifestSet
    /\ cli_input \in BSeq(CliGameSet, MaxCliGames)
    /\ cli_taken = 0
    /\ cli_shown = << >>
    /\ cli_stderr = << >>
    /\ cli_exit = None
    /\ cli_pc = "start"

\* lines 75-76, 19-20 : _resolve_pgn_path raises FileNotFoundError, which
\* nothing catches; the interpreter exits with code 1
CliFileNotFound ==
    /\ cli_pc = "start"
    /\ ~cli_exists
    /\ cli_exit' = Some(1)
    /\ cli_pc' = "exited"
    /\ UNCHANGED <<cli_args, cli_exists, cli_manifest, cli_input, cli_taken, cli_shown, cli_stderr, cliOthers>>

\* lines 75-78
CliResolve ==
    /\ cli_pc = "start"
    /\ cli_exists
    /\ cli_pc' = "verify"
    /\ UNCHANGED <<cli_args, cli_exists, cli_manifest, cli_input, cli_taken, cli_shown, cli_stderr, cli_exit, cliOthers>>

\* lines 79-84 with --no-sha-check
CliNoShaCheck ==
    /\ cli_pc = "verify"
    /\ cli_args.no_sha_check
    /\ cli_pc' = "games"
    /\ UNCHANGED <<cli_args, cli_exists, cli_manifest, cli_input, cli_taken, cli_shown, cli_stderr, cli_exit, cliOthers>>

\* lines 79-84, 40-64 : the check prints its messages and main goes on
CliVerify ==
    /\ cli_pc = "verify"
    /\ ~cli_args.no_sha_check
    /\ cli_stderr' = CliShaMessagesOf[cli_manifest]
    /\ cli_pc' = "games"
    /\ UNCHANGED <<cli_args, cli_exists, cli_manifest, cli_input, cli_taken, cli_shown, cli_exit, cliOthers>>

CliPulling ==
    /\ cli_pc = "games"
    /\ Len(cli_shown) < CliShowLimit
    /\ cli_taken < Len(cli_input)

\* lines 83-84 : a game without eval is passed over with --only-eval
CliFilterOut ==
    /\ CliPulling
    /\ cli_args.only_eval /\ ~cli_input[cli_taken + 1].has_eval
    /\ cli_taken' = cli_taken + 1
    /\ UNCHANGED <<cli_args, cli_exists, cli_manifest, cli_input, cli_shown, cli_stderr, cli_exit, cli_pc, cliOthers>>

\* lines 86-102 : the next game is printed
CliPrintGame ==
    /\ CliPulling
    /\ ~(cli_args.only_eval /\ ~cli_input[cli_taken + 1].has_eval)
    /\ cli_taken' = cli_taken + 1
    /\ cli_shown' = Append(cli_shown, cli_input[cli_taken + 1])
    /\ UNCHANGED <<cli_args, cli_exists, cli_manifest, cli_input, cli_stderr, cli_exit, cli_pc, cliOthers>>

\* lines 104-105, 109 : three games were printed or the stream ended;
\* main returns 0
CliReturn ==
    /\ cli_pc = "games"
    /\ Len(cli_shown) = CliShowLimit \/ cli_taken = Len(cli_input)
    /\ cli_exit' = Some(0)
    /\ cli_pc' = "exited"
    /\ UNCHANGED <<cli_args, cli_exists, cli_manifest, cli_input, cli_taken, cli_shown, cli_stderr, cliOthers>>

CliNext ==
    \/ CliFileNotFound
    \/ CliResolve
    \/ CliNoShaCheck
    \/ CliVerify
    \/ CliFilterOut
    \/ CliPrintGame
    \/ CliReturn

SpecCli == CliInit /\ [][CliNext]_vars

\* ---- properties of the command line ----

\* a line of the manifest that names the input file
NamesSource(line) ==
    EndsWith(line, <<" ">> \o SourceName) \/ EndsWith(line, <<" ", ".", "/">> \o SourceName)

\* the manifest names the input file with a digest other than its own
ManifestDisagrees(manifest) ==
    /\ ~IsNone(manifest)
    /\ \E i \in 1..Len(Val(manifest)) :
          /\ NamesSource(Val(manifest)[i])
          /\ \A k \in (i + 1)..Len(Val(manifest)) : ~NamesSource(Val(manifest)[k])
          /\ Lower(SubSeq(Val(manifest)[i], 1, 4)) # ActualDigest

\* C19 as stated: when the checksum is verified and the manifest holds for
\* the input file a digest other than the file's SHA-256, the run fails: no
\* game is parsed or printed after the mismatch and the exit code is not 0;
\* when the manifest or the entry is missing the check is skipped and the
\* run goes on.
C19_MismatchIsFatal ==
    (cli_pc \in {"games", "exited"} /\ cli_exists /\ ~cli_args.no_sha_check
        /\ ManifestDisagrees(cli_manifest))
    => /\ cli_taken = 0
       /\ cli_shown = << >>
       /\ cli_pc = "exited"
       /\ cli_exit # Some(0)


\* ---- missing columns ----

\* the required columns the table lacks
Lacking == NeededColumns \ Val(hb_df).columns

\* C20 as stated: the heatmap builder run on a table lacking one of its
\* required columns fails with an error naming the missing columns and
\* produces no output, a table with zero rows included.
C20_MissingColumnsAlwaysRaise ==
    (hb_pc \notin {"idle", "start"} /\ ~IsNone(hb_df)) =>
        (Lacking # {} =>
            /\ hb_pc = "raised"
            /\ hb_out = None
            /\ ~IsNone(hb_raised)
            /\ { Val(hb_raised).missing[i] : i \in 1..Len(Val(hb_raised).missing) } = Lacking)

\* C20 (amended): the heatmap builder run on a table with at least one row
\* that lacks one of its required columns fails with a ValueError whose
\* message names every missing column, in the order of the required list,
\* and produces no output; run on a table with zero rows (or on None) it
\* returns the empty document {} without error, whatever the columns.
C20_MissingColumnsRaiseOnRows ==
    (hb_pc \notin {"idle", "start"}) =>
        IF (IF IsNone(hb_df) THEN TRUE ELSE Val(hb_df).height = 0)
        THEN hb_pc = "done" /\ hb_out = Some(<< >>) /\ hb_raised = None
        ELSE IF Lacking # {}
        THEN /\ hb_pc = "raised"
             /\ hb_out = None
             /\ agg = << >>
             /\ Val(hb_raised).exc = "ValueError"
             /\ Len(Val(hb_raised).missing) = Cardinality(Lacking)
             /\ \A i \in 1..Len(Val(hb_raised).missing) :
                   /\ Val(hb_raised).missing[i] \in Lacking
                   /\ \A j \in 1..Len(Val(hb_raised).missing) :
                         i < j => \E a, b \in 1..Len(needed) :
                                     /\ a < b
                                     /\ needed[a] = Val(hb_raised).missing[i]
                                     /\ needed[b] = Val(hb_raised).missing[j]
        ELSE hb_pc # "raised" /\ hb_raised = None

\* a table with rows lacked two required columns and the build raised
C20_Witness ==
    /\ hb_pc = "raised"
    /\ Val(hb_df).height > 0
    /\ Val(hb_raised).missing = << "opening", "result_value" >>

\* ---------------------------------------------------------------------
\* Time-control bucket (game_helpers.py)
\* ---------------------------------------------------------------------

MaxInc == 10

\* the class \s on one character
ReSpace(c) == IsSpace(c) \/ c \in {"\n", "\f"}

\* the index after the longest run of characters of a class from i on
SkipWs(s, i) ==
    LET stop == { j \in i..Len(s) : ~ReSpace(s[j]) }
    IN  IF stop = {} THEN Len(s) + 1 ELSE MinOf(stop)

SkipDigits(s, i) ==
    LET stop == { j \in i..Len(s) : s[j] \notin Digits }
    IN  IF stop = {} THEN Len(s) + 1 ELSE MinOf(stop)

\* _TC_RE.match(s) : None, or the groups (1) and (2), group (2) being
\* None when the optional part did not take part in the match
_TC_RE(s) ==
    LET a == SkipWs(s, 1)
        b == SkipDigits(s, a)
        c == SkipWs(s, b)
    IN  IF b = a THEN None
        ELSE IF c = Len(s) + 1 THEN Some(<<SubSeq(s, a, b - 1), None>>)
        ELSE IF s[c] # "+" THEN None
        ELSE LET d == SkipWs(s, c + 1)
                 e == SkipDigits(s, d)
                 f == SkipWs(s, e)
             IN  IF e = d THEN None
                 ELSE IF f # Len(s) + 1 THEN None
                 ELSE Some(<<SubSeq(s, a, b - 1), Some(SubSeq(s, d, e - 1))>>)

normalize_time_control_bucket_Mut(time_control_raw) ==
    LET m == _TC_RE(IF IsNone(time_control_raw) THEN << >> ELSE Val(time_control_raw))
    IN  IF IsNone(m) THEN "OTHER"
        ELSE LET initial   == DigitsToInt(Val(m)[1])
                 inc       == IF IsNone(Val(m)[2]) THEN 0 ELSE DigitsToInt(Val(Val(m)[2]))
                 estimated == initial + 40 * inc
             IN  IF estimated <= 180 THEN "BULLET"
                 ELSE IF estimated < 480 THEN "BLITZ"
                 ELSE IF estimated < 1500 THEN "RAPID"
                 ELSE "OTHER"

\* lines 12-27
normalize_time_control_bucket(time_control_raw) ==
    LET m == _TC_RE(IF IsNone(time_control_raw) THEN << >> ELSE Val(time_control_raw))
    IN  IF IsNone(m) THEN "OTHER"
        ELSE LET initial   == DigitsToInt(Val(m)[1])
                 inc       == IF IsNone(Val(m)[2]) THEN 0 ELSE DigitsToInt(Val(Val(m)[2]))
                 estimated == initial + 40 * inc
             IN  IF estimated < 180 THEN "BULLET"
                 ELSE IF estimated < 480 THEN "BLITZ"
                 ELSE IF estimated < 1500 THEN "RAPID"
                 ELSE "OTHER"

\* str(n) of a natural number
RECURSIVE ToDigits(_)
ToDigits(n) ==
    LET last == <<CHOOSE c \in Digits : DigitVal(c) = n % 10>>
    IN  IF n < 10 THEN last ELSE ToDigits(n \div 10) \o last

\* the initial times of the inputs, in seconds, around every cut-point
TcInitialSet ==
    { 0, 1, 60, 139, 140, 179, 180, 181, 300, 439, 440, 479, 480, 481,
      900, 1099, 1100, 1499, 1500, 1501, 10800 }

\* what stands where the initial time should
TcInitialText ==
    { ToDigits(n) : n \in TcInitialSet } \cup { << >>, <<"-">>, <<"3", "x">>, <<"1", " ", "2">>, <<"0", "0", "7">> }

\* what follows the initial time
TcTailSet ==
    { << >>, <<"+">>, <<"+", "x">>, <<"/", "4", "0">>, <<"+", "-", "1">>, <<"+", "1", "+", "1">> }
      \cup { <<"+">> \o ToDigits(i) : i \in 0..MaxInc }
      \cup { <<" ", "+", " ">> \o ToDigits(i) : i \in 0..MaxInc }

TcRawSet ==
    { None }
      \cup { Some(lead \o ini \o tail \o trail) :
                lead \in { << >>, <<" ">> }, ini \in TcInitialText,
                tail \in TcTailSet, trail \in { << >>, <<" ">>, <<"\n">> } }

tcOthers == <<splitVars, moveVars, gameVars, openingVars, heatVars, popVars, explorerVars, registryVars, exportVars, cliVars, binVars, tzVars>>

TcInit ==
    /\ SplitIdle /\ MovesIdle /\ GamesIdle /\ OpeningIdle /\ HeatIdle /\ PopIdle /\ ExplorerIdle /\ RegistryIdle /\ ExportIdle /\ CliIdle /\ BinIdle /\ TzIdle
    /\ tc_raw \in TcRawSet
    /\ tc_pc = "start"
    /\ tc_out = None

\* lines 13-15 : the pattern does not match
TcNoMatch ==
    /\ tc_pc = "start"
    /\ IsNone(_TC_RE(IF IsNone(tc_raw) THEN << >> ELSE Val(tc_raw)))
    /\ tc_out' = Some(normalize_time_control_bucket(tc_raw))
    /\ tc_pc' = "done"
    /\ UNCHANGED <<tc_raw, tcOthers>>

\* lines 17-27 : the pattern matches
TcBucket ==
    /\ tc_pc = "start"
    /\ ~IsNone(_TC_RE(IF IsNone(tc_raw) THEN << >> ELSE Val(tc_raw)))
    /\ tc_out' = Some(normalize_time_control_bucket(tc_raw))
    /\ tc_pc' = "done"
    /\ UNCHANGED <<tc_raw, tcOthers>>

TcNext == TcNoMatch \/ TcBucket

SpecTc == TcInit /\ [][TcNext]_vars

\* the bucket of an estimated duration in seconds
BucketOfEstimate(estimated) ==
    IF estimated < 180 THEN "BULLET"
    ELSE IF estimated < 480 THEN "BLITZ"
    ELSE IF estimated < 1500 THEN "RAPID"
    ELSE "OTHER"

\* s without its leading and trailing white space
TrimWs(s) ==
    LET nz == { i \in 1..Len(s) : ~ReSpace(s[i]) }
    IN  IF nz = {} THEN << >> ELSE SubSeq(s, MinOf(nz), MaxOf(nz))

\* the readings of s as initial[+inc] : digits, then possibly "+" and
\* digits, nothing else
BareReadings(s) ==
    (IF s # << >> /\ AllDigits(s) THEN { <<s, None>> } ELSE {})
      \cup { <<SubSeq(s, 1, k - 1), Some(SubSeq(s, k + 1, Len(s)))>> :
                k \in { j \in 2..(Len(s) - 1) :
                          /\ s[j] = "+"
                          /\ AllDigits(SubSeq(s, 1, j - 1))
                          /\ AllDigits(SubSeq(s, j + 1, Len(s))) } }

\* the same with white space allowed around each of the two numbers
SpacedReadings(s) ==
    (IF TrimWs(s) # << >> /\ AllDigits(TrimWs(s)) THEN { <<TrimWs(s), None>> } ELSE {})
      \cup { <<TrimWs(SubSeq(s, 1, k - 1)), Some(TrimWs(SubSeq(s, k + 1, Len(s))))>> :
                k \in { j \in 1..Len(s) :
                          /\ s[j] = "+"
                          /\ TrimWs(SubSeq(s, 1, j - 1)) # << >>
                          /\ AllDigits(TrimWs(SubSeq(s, 1, j - 1)))
                          /\ TrimWs(SubSeq(s, j + 1, Len(s))) # << >>
                          /\ AllDigits(TrimWs(SubSeq(s, j + 1, Len(s)))) } }

EstimateOf(reading) ==
    DigitsToInt(reading[1]) + 40 * (IF IsNone(reading[2]) THEN 0 ELSE DigitsToInt(Val(reading[2])))

TcText == IF IsNone(tc_raw) THEN << >> ELSE Val(tc_raw)

\* C21 as stated: a string of the form initial[+inc] maps to the bucket of
\* initial + 40*inc (BULLET below 180, BLITZ below 480, RAPID below 1500,
\* OTHER from 1500 on) and every other string maps to OTHER
C21_OnlyBareFormIsBucketed ==
    tc_pc = "done" =>
        IF BareReadings(TcText) # {}
        THEN \A r \in BareReadings(TcText) : tc_out = Some(BucketOfEstimate(EstimateOf(r)))
        ELSE tc_out = Some("OTHER")

\* C21: a string made of an initial time and possibly "+" and an increment,
\* each number possibly surrounded by white space, maps to the bucket of
\* initial + 40*inc (BULLET below 180, BLITZ below 480, RAPID below 1500,
\* OTHER from 1500 on); every other string, and None, maps to OTHER
C21_SpacedFormIsBucketed ==
    tc_pc = "done" =>
        IF SpacedReadings(TcText) # {}
        THEN \A r \in SpacedReadings(TcText) : tc_out = Some(BucketOfEstimate(EstimateOf(r)))
        ELSE tc_out = Some("OTHER")

C21_Witness ==
    /\ tc_pc = "done"
    /\ tc_raw = Some(<<" ", "1", "4", "0", " ", "+", " ", "1">>)
    /\ tc_out = Some("BLITZ")

\* ---------------------------------------------------------------------
\* The bin of an accuracy, called on its own
\* ---------------------------------------------------------------------

MaxBinInput == 105

\* accuracies from -5 to MaxBinInput in halves, and the hundredths next to
\* the ends of the scale and to a bin edge
BinInputSet ==
    { Rat(n, 2) : n \in (-10)..(2 * MaxBinInput) }
      \cup { Rat(n, 100) : n \in { -1, 1, 999, 1001, 8999, 9001, 9999, 10001 } }

binOthers == <<splitVars, moveVars, gameVars, openingVars, heatVars, popVars, explorerVars, registryVars, exportVars, cliVars, tcVars, tzVars>>

BinInit ==
    /\ SplitIdle /\ MovesIdle /\ GamesIdle /\ OpeningIdle /\ HeatIdle /\ PopIdle /\ ExplorerIdle /\ RegistryIdle /\ ExportIdle /\ CliIdle /\ TcIdle /\ TzIdle
    /\ bn_v \in { p \in BinInputSet \X BinInputSet : ~RatLess(p[2], p[1]) }
    /\ bn_pc = "calls"
    /\ bn_out = << >>

\* lines 35-45 : one call of _bin_index_10, on the next accuracy
BinCall ==
    /\ bn_pc = "calls"
    /\ bn_out' = Append(bn_out, _bin_index_10(bn_v[Len(bn_out) + 1]))
    /\ bn_pc' = IF Len(bn_out) + 1 = Len(bn_v) THEN "done" ELSE "calls"
    /\ UNCHANGED <<bn_v, binOthers>>

BinNext == BinCall

SpecBin == BinInit /\ [][BinNext]_vars

RatLeq(a, b) == ~RatLess(b, a)

OnScale(v) == RatLeq(RatOfInt(0), v) /\ RatLeq(v, RatOfInt(100))

\* idx = floor(v / 10)
IsFloorOfTenth(idx, v) == RatLeq(RatOfInt(10 * idx), v) /\ RatLess(v, RatOfInt(10 * idx + 10))

TagReadings(line) ==
    LET s == Strip(line)
        n == Len(s)
    IN  { <<SubSeq(s, 2, p[1]), SubSeq(s, p[2] + 2, n - 2)>> :
            p \in { q \in (2..n) \X (3..n) :
                      /\ s[1] = "["
                      /\ \A i \in 2..q[1] : IsWord(s[i])
                      /\ q[2] > q[1]
                      /\ \A i \in (q[1] + 1)..q[2] : IsSpace(s[i])
                      /\ q[2] + 1 < n - 1
                      /\ s[q[2] + 1] = "\""
                      /\ s[n - 1] = "\""
                      /\ s[n] = "]" } }

\* the keys of a tag map
KeysOf(t) == { t[i][1] : i \in 1..Len(t) }

\* t2 is t1 with key bound to value and every other key as it was
IsInsertOf(t2, t1, key, value) ==
    /\ KeysOf(t2) = KeysOf(t1) \cup {key}
    /\ \A k \in KeysOf(t2) : DictGet(t2, k) = IF k = key THEN Some(value) ELSE DictGet(t1, k)

\* what C23 says of a step in search_header or header, given the movetext
\* line the step is to store for a line that begins the movetext
C23_Step(first_line) ==
    (split_pc = "loop" /\ InHeaderModes) =>
        /\ yielded' = yielded
        /\ HasLine =>
              IF StartsWith(CurLine, <<"[">>)
              THEN IF TagReadings(CurLine) # {}
                   THEN \A r \in TagReadings(CurLine) : IsInsertOf(tags', tags, r[1], r[2])
                   ELSE tags' = tags
              ELSE IF Strip(CurLine) = << >>
              THEN mode = "search_header" => UNCHANGED <<mode, tags, movetext_lines>>
              ELSE mode' = "moves" /\ movetext_lines' = <<first_line>>

\* C23 as stated: in search_header and header a line starting with "[" that
\* matches [Key "Value"] binds Key to Value in the tag map, one that does
\* not match leaves the tag map unchanged, a blank line is skipped in
\* search_header, any other line switches to moves with that line as the
\* only movetext line; nothing is yielded in these modes
C23_FirstMovetextLineIsTheLine == [][C23_Step(CurLine)]_vars

\* C23: in search_header and header a line starting with "[" that matches
\* [Key "Value"] binds Key to Value in the tag map, one that does not match
\* leaves the tag map unchanged, a blank line is skipped in search_header,
\* any other line switches to moves with that line, its trailing white
\* space removed, as the only movetext line; nothing is yielded in these
\* modes
C23_HeaderModesReadTagsThenMovetext == [][C23_Step(RStrip(CurLine))]_vars

\* a tag line, a tag line that does not match and a movetext line ending
\* in a blank were read
C23_Witness ==
    /\ split_pc = "loop" /\ line_idx = 3 /\ Len(in_lines) >= 3
    /\ in_lines[1] = Line_TagA1 /\ in_lines[2] = Line_BadTag /\ in_lines[3] = Line_Move2
    /\ mode = "moves"
    /\ tags = << <<<<"A">>, <<"x">>>> >>
    /\ movetext_lines = << <<" ", "e", "5">> >>
    /\ yielded = << >>

\* the loop of _extract_moves_with_eval is about to read a COMMENT
AtComment == mv_pc = "extract" /\ tok_idx < Len(tokens) /\ CurToken[1] = "COMMENT"

C24_Step ==
    AtComment =>
        /\ Len(moves') = Len(moves)
        /\ \A i \in 1..Len(moves) : moves'[i].move = moves[i].move
        /\ \A i \in 1..(Len(moves) - 1) : moves'[i] = moves[i]
        /\ moves # << >> =>
              LET m == EVAL_RE_search(CurToken[2])
              IN  moves'[Len(moves)].eval =
                      IF IsNone(m) THEN moves[Len(moves)].eval ELSE _parse_eval_value(Val(m))

\* C24: the eval of a comment is attached to the most recently appended
\* Move and to no other Move; a comment read before any Move was appended
\* changes nothing; a comment never changes the number or the order of the
\* Moves
C24_EvalGoesToLastAppendedMove == [][C24_Step]_vars

\* two moves, then a comment with an eval: the second move carries it, the
\* first carries none
C24_Witness ==
    /\ mv_pc = "extract" /\ tok_idx = 3
    /\ tokens[3][1] = "COMMENT"
    /\ Len(moves) = 2
    /\ moves[1].eval = None
    /\ moves[2].eval = Some(FNum(-10))

\* the movetext with every comment, from its "{" to the next "}" or to the
\* end of the text, replaced by a blank
RECURSIVE CommentsBlanked(_)
CommentsBlanked(s) ==
    LET open == { i \in 1..Len(s) : s[i] = "{" }
    IN  IF open = {} THEN s
        ELSE LET i     == MinOf(open)
                 close == { j \in (i + 1)..Len(s) : s[j] = "}" }
             IN  IF close = {} THEN SubSeq(s, 1, i - 1)
                 ELSE SubSeq(s, 1, i - 1) \o <<" ">>
                        \o CommentsBlanked(SubSeq(s, MinOf(close) + 1, Len(s)))

\* a result marker, digits followed by one or more dots, or a token
\* starting with "$"
IsNotAMove(tok) ==
    \/ tok \in { <<"1", "-", "0">>, <<"0", "-", "1">>, <<"1", "/", "2", "-", "1", "/", "2">>, <<"*">> }
    \/ \E k \in 1..(Len(tok) - 1) :
          /\ \A i \in 1..k : tok[i] \in Digits
          /\ \A i \in (k + 1)..Len(tok) : tok[i] = "."
    \/ (tok # << >> /\ tok[1] = "$")

MoveTokensOf(s) == SelectSeq(SplitWs(CommentsBlanked(s)), LAMBDA tok : ~IsNotAMove(tok))

\* the loop of _extract_moves_with_eval is about to read a TOKEN
AtToken == mv_pc = "extract" /\ tok_idx < Len(tokens) /\ CurToken[1] = "TOKEN"

C25_MovesAreTheMoveTokens ==
    ExtractionDone => [i \in 1..Len(moves) |-> moves[i].move] = MoveTokensOf(movetext_flat)

C25_Step ==
    AtToken =>
        \/ moves' = moves
        \/ moves' = Append(moves, [move |-> CurToken[2], eval |-> None])

\* C25: the Move list of a movetext consists of exactly the tokens outside
\* comments that are not a result marker (1-0, 0-1, 1/2-1/2, *), not a move
\* number (digits followed by one or more dots) and do not start with "$",
\* in their original order, each appended with eval absent; nothing inside a
\* comment becomes a Move
C25_MoveListIsFilteredTokens == [](C25_MovesAreTheMoveTokens) /\ [][C25_Step]_vars

\* the first scenario of the specification: move numbers, three moves, three
\* comments and a result
C25_Witness ==
    /\ ExtractionDone
    /\ movetext_flat = Scenario1Movetext
    /\ [i \in 1..Len(moves) |-> moves[i].move] = << <<"e", "4">>, <<"e", "5">>, <<"N", "f", "3">> >>

\* ---------------------------------------------------------------------
\* The loop of _tokenize_movetext
\* ---------------------------------------------------------------------

MaxTokChunks == 2

\* movetexts of a few chunks, and texts that end in or with an open comment
TzTextSet ==
    { Flatten(cs) : cs \in BSeq(ChunkSet, MaxTokChunks) }
      \cup { <<"{">>, <<"e", "4", " ", "{">>, <<"{", "a", "b", "c">>, <<"e", "4", "{", "x", "}", "e", "5">>, <<"e", "4", " ", "{", " ", "[", "%", "e", "v", "a", "l", " ", "0", ".", "3", "]">>, <<"}", "a">> }

tzOthers == <<splitVars, moveVars, gameVars, openingVars, heatVars, popVars, explorerVars, registryVars, exportVars, cliVars, tcVars, binVars>>

\* lines 75-77
TzInit ==
    /\ SplitIdle /\ MovesIdle /\ GamesIdle /\ OpeningIdle /\ HeatIdle /\ PopIdle /\ ExplorerIdle /\ RegistryIdle /\ ExportIdle /\ CliIdle /\ TcIdle /\ BinIdle
    /\ tz_text \in TzTextSet
    /\ tz_i = 0
    /\ tz_tokens = << >>
    /\ tz_pc = "loop"

\* while i < n
TzInLoop == tz_pc = "loop" /\ tz_i < Len(tz_text)

\* c = movetext_flat[i]
TzChar == tz_text[tz_i + 1]

\* lines 80-82 : a blank is passed over
TzSpace ==
    /\ TzInLoop
    /\ IsSpace(TzChar)
    /\ tz_i' = TokStep(tz_text, tz_i + 1).i - 1
    /\ UNCHANGED <<tz_text, tz_tokens, tz_pc, tzOthers>>

\* lines 83-90 : a comment
TzComment ==
    /\ TzInLoop
    /\ ~IsSpace(TzChar) /\ TzChar = "{"
    /\ tz_tokens' = tz_tokens \o TokStep(tz_text, tz_i + 1).emit
    /\ tz_i' = TokStep(tz_text, tz_i + 1).i - 1
    /\ UNCHANGED <<tz_text, tz_pc, tzOthers>>

\* lines 91-97 : a token
TzToken ==
    /\ TzInLoop
    /\ ~IsSpace(TzChar) /\ TzChar # "{"
    /\ tz_tokens' = tz_tokens \o TokStep(tz_text, tz_i + 1).emit
    /\ tz_i' = TokStep(tz_text, tz_i + 1).i - 1
    /\ UNCHANGED <<tz_text, tz_pc, tzOthers>>

\* line 98 : return tokens
TzReturn ==
    /\ tz_pc = "loop" /\ tz_i >= Len(tz_text)
    /\ tz_pc' = "done"
    /\ UNCHANGED <<tz_text, tz_i, tz_tokens, tzOthers>>

TzNext == TzSpace \/ TzComment \/ TzToken \/ TzReturn

SpecTokenize == TzInit /\ [][TzNext]_vars

\* the interpreter runs the loop on
SpecTokenizeFair == SpecTokenize /\ WF_vars(TzNext)

\* the comment that starts at the scan index has no closing brace
TzOpenComment ==
    /\ TzInLoop /\ TzChar = "{"
    /\ \A k \in (tz_i + 2)..Len(tz_text) : tz_text[k] # "}"

\* every loop iteration moves the scan index forward
TzIndexIncreases == [][TzInLoop => tz_i' > tz_i]_vars

\* the call returns
TzTerminates == <>(tz_pc = "done")

\* the list returned is the one the tokenizer gives in one piece
TzAgreesWithTokenizer == tz_pc = "done" => tz_tokens = _tokenize_movetext(tz_text)

C26_Step ==
    /\ TzInLoop => tz_i' > tz_i
    /\ TzOpenComment =>
          /\ tz_tokens' = Append(tz_tokens,
                                 <<"COMMENT", SubSeq(tz_text, tz_i + 2, Len(tz_text))>>)
          /\ tz_i' >= Len(tz_text)

\* C26: the scan index strictly increases on every loop iteration, also
\* when "{" is the last character or has no closing brace, and an
\* unterminated "{" yields exactly one COMMENT token that extends to the
\* end of the text, after which no further token is produced
C26_OpenCommentRunsToEndOfText == [][C26_Step]_vars

\* what the code does with the unterminated "{" : the one COMMENT token
\* holds the text up to, but without, its last character
TzOpenCommentLosesLastCharacter ==
    [][TzOpenComment =>
          /\ tz_tokens' = Append(tz_tokens,
                                 <<"COMMENT", SubSeq(tz_text, tz_i + 2, Len(tz_text) - 1)>>)
          /\ tz_i' = Len(tz_text)]_vars

\* the color the test on the Black tokens gives a name
ColorOfName(nm) ==
    IF \E t \in BlackTokens : Contains(Lower(nm), t) THEN "black" ELSE "white"

\* C27 as stated: the color of an entry is a function of its name, so within
\* each (time_control, rating_bracket) list every name, the other label
\* included, appears in at most one entry
C27_NameHasOneEntry ==
    \A b \in PopOutBuckets :
        \A i \in 1..Len(b.entries) : \A j \in 1..Len(b.entries) :
            i # j => b.entries[i].name # b.entries[j].name

\* C27: the color of an entry is derived from the opening root of its rows,
\* before the root is replaced by the other label; within each
\* (time_control, rating_bracket) list every pair of name and color appears
\* in at most one entry, every name but the other label appears in at most
\* one entry and has the color of the test on the name, and the other label
\* appears in at most two entries, one per color
C27_NameAndColorHaveOneEntry ==
    \A b \in PopOutBuckets :
        \A i \in 1..Len(b.entries) :
            /\ \A j \in 1..Len(b.entries) :
                  i # j => <<b.entries[i].name, b.entries[i].color>>
                             # <<b.entries[j].name, b.entries[j].color>>
            /\ b.entries[i].color \in {"white", "black"}
            /\ b.entries[i].name # pb_self.other_label =>
                  /\ b.entries[i].color = ColorOfName(b.entries[i].name)
                  /\ \A j \in 1..Len(b.entries) :
                        i # j => b.entries[i].name # b.entries[j].name

\* a list holds the other label twice, once as a White and once as a Black
\* opening
C27_Witness ==
    /\ pb_pc = "done"
    /\ \E b \in PopOutBuckets :
          /\ Len(b.entries) = 2
          /\ b.entries[1].name = pb_self.other_label
          /\ b.entries[2].name = pb_self.other_label
          /\ { b.entries[1].color, b.entries[2].color } = {"white", "black"}

\* the sum of the counts of a node list
NodeCountSum(nodes) == SeqSum([i \in 1..Len(nodes) |-> nodes[i].count])

\* the node list reached by path, whose parent counts upper rows, and every
\* list below it: each node counts the rows of the bucket that played path
\* and then its move, no node counts more than the parent, nor do the nodes
\* together
RECURSIVE CountsNest(_, _, _, _)
CountsNest(b, nodes, path, upper) ==
    /\ NodeCountSum(nodes) <= upper
    /\ \A i \in 1..Len(nodes) :
          /\ nodes[i].count = Cardinality(PathRows(b, Append(path, nodes[i].move)))
          /\ nodes[i].count <= upper
          /\ CountsNest(b, ChildrenOf(nodes[i]), Append(path, nodes[i].move), nodes[i].count)

\* C28: in the opening-explorer tree the children of a node are built from
\* the rows that played the node's move at the node's depth after the same
\* moves: a root counts the rows of the partition whose first move is its
\* move, every child's count is at most its parent's count, and the counts
\* of the children of a node sum to at most the node's count
C28_ChildrenCountWithinParent ==
    \A b \in ExplorerOutBuckets :
        CountsNest(b, b.nodes, << >>, Cardinality(PathRows(b, << >>)))

\* a node with children whose counts sum to less than its own count, and a
\* grandchild below it
C28_Witness ==
    \E b \in ExplorerOutBuckets : \E i \in 1..Len(b.nodes) :
        LET kids == ChildrenOf(b.nodes[i])
        IN  /\ kids # << >>
            /\ NodeCountSum(kids) < b.nodes[i].count
            /\ \E j \in 1..Len(kids) : ChildrenOf(kids[j]) # << >>

\* line k of the input is blank
BlankAt(k) == Strip(in_lines[k]) = << >>

\* line k of the input is read in moves mode: since the last blank line
\* before it, a line that does not start with "[" was read
ReadInMoves(k) ==
    LET blanks == { j \in 1..(k - 1) : BlankAt(j) }
        p      == IF blanks = {} THEN 0 ELSE MaxOf(blanks)
    IN  \E j \in (p + 1)..(k - 1) : ~StartsWith(in_lines[j], <<"[">>)

\* the number of the last line among the first n that was blank and read in
\* moves mode, 0 if there is none
LastReset(n) ==
    LET resets == { j \in 1..n : BlankAt(j) /\ ReadInMoves(j) }
    IN  IF resets = {} THEN 0 ELSE MaxOf(resets)

\* the well-formed tag lines among the first n that were read in a header
\* mode since the last reset
TagLinesSince(n) ==
    { j \in (LastReset(n) + 1)..n :
        /\ StartsWith(in_lines[j], <<"[">>)
        /\ ~ReadInMoves(j)
        /\ TagReadings(in_lines[j]) # {} }

\* t binds exactly the keys of the tag lines S, each to the value of the
\* last line that names it
IsTagMapOf(t, S) ==
    /\ KeysOf(t) = { r[1] : r \in UNION { TagReadings(in_lines[j]) : j \in S } }
    /\ \A k \in KeysOf(t) :
          LET last == MaxOf({ j \in S : \E r \in TagReadings(in_lines[j]) : r[1] = k })
          IN  \E r \in TagReadings(in_lines[last]) : r[1] = k /\ DictGet(t, k) = Some(r[2])

C29_TagsAreTagLinesSinceReset == IsTagMapOf(tags, TagLinesSince(line_idx))

C29_Step ==
    /\ ~C1_BlankInMoves => KeysOf(tags) \subseteq KeysOf(tags')
    /\ yielded' # yielded =>
          /\ Len(yielded') = Len(yielded) + 1
          /\ IsTagMapOf(yielded'[Len(yielded')].tags, TagLinesSince(line_idx))
    /\ (HasLine /\ mode = "moves" /\ StartsWith(CurLine, <<"[">>)) =>
          /\ movetext_lines' = Append(movetext_lines, RStrip(CurLine))
          /\ UNCHANGED <<mode, tags, yielded>>

\* C29: the tag map is emptied only when a blank line is read in moves
\* mode, so the tag map, and the tag map of every yielded record, binds
\* exactly the well-formed tag lines read in search_header or header since
\* the last such blank line (or the start of the input), the last value
\* winning per key; tag blocks separated by blank lines without movetext
\* are merged, and a line starting with "[" read in moves mode is appended
\* to the movetext and starts no record
C29_TagMapClearedOnlyAfterMovetext ==
    [](C29_TagsAreTagLinesSinceReset) /\ [][C29_Step]_vars

\* a tag line, a blank line, another tag line and a movetext line gave one
\* record that carries both tags
C29_Witness ==
    /\ split_pc = "done"
    /\ in_lines = << Line_TagA1, Line_Empty, Line_TagB, Line_Move1 >>
    /\ Len(yielded) = 1
    /\ yielded[1].tags = << <<<<"A">>, <<"x">>>>, <<<<"B">>, <<"x">>>> >>

\* agg[tc][bracket] as a list of (group, cell), empty when it is missing
GroupsAt(a, tc, bracket) ==
    IF IsNone(DictGet(a, tc)) THEN << >>
    ELSE IF IsNone(DictGet(Val(DictGet(a, tc)), bracket)) THEN << >>
    ELSE Val(DictGet(Val(DictGet(a, tc)), bracket))

\* the total of "All" in agg[tc][bracket]
AllTotal(a, tc, bracket) ==
    LET c == DictGet(GroupsAt(a, tc, bracket), GroupAll)
    IN  IF IsNone(c) THEN 0 ELSE Val(c).total

\* the totals of the other groups of agg[tc][bracket], added up
OthersTotal(a, tc, bracket) ==
    LET g == GroupsAt(a, tc, bracket)
    IN  SeqSum([k \in 1..Len(g) |-> IF g[k][1] = GroupAll THEN 0 ELSE g[k][2].total])

\* the other groups of agg[tc][bracket] whose total differs between a and a2
OthersChanged(a, a2, tc, bracket) ==
    { k \in 1..Len(GroupsAt(a2, tc, bracket)) :
        LET g   == GroupsAt(a2, tc, bracket)[k]
            old == DictGet(GroupsAt(a, tc, bracket), g[1])
        IN  /\ g[1] # GroupAll
            /\ g[2].total # (IF IsNone(old) THEN 0 ELSE Val(old).total) }

\* the colors of a row that give a sample: the player's Elo is present and
\* the accuracy list is longer than opening_moves
SampledColors(self, row) ==
    { c \in {"white", "black"} :
        LET elo == IF c = "white" THEN row.white_elo ELSE row.black_elo
            acc == IF c = "white" THEN row.avg_accuracy_per_move_white_json
                   ELSE row.avg_accuracy_per_move_black_json
        IN  /\ ~IsNone(elo)
            /\ ~IsNone(acc)
            /\ Val(acc).type = "list"
            /\ Len(Val(acc).val) > self.opening_moves }

\* the samples a row gives to a time control and bracket, each player under
\* the bracket of that player's own Elo
SamplesFor(self, row, tc, bracket) ==
    IF IsNone(row.time_control) \/ IsNone(row.result_value) THEN 0
    ELSE IF Val(row.time_control) \notin ALLOWED_TIME_CONTROLS \/ Val(row.time_control) # tc THEN 0
    ELSE Cardinality({ c \in SampledColors(self, row) :
            _elo_bracket(Val(IF c = "white" THEN row.white_elo ELSE row.black_elo)) = bracket })

HasOpening(row) ==
    IF IsNone(row.opening) THEN FALSE
    ELSE _opening_root(Some(Strip(Val(row.opening)))) # << >>

\* the row loop has read one more row
RowRead == hb_pc = "rows" /\ hb_i' = hb_i + 1

\* what C30 says of the step that reads a row, for the rows that satisfy
\* InScope
RowStepOK(InScope(_)) ==
    (RowRead /\ InScope(Val(hb_row'))) =>
        LET row == Val(hb_row')
        IN  /\ \A tc \in ALLOWED_TIME_CONTROLS : \A b \in FiveBrackets :
                  /\ AllTotal(agg', tc, b) = AllTotal(agg, tc, b) + SamplesFor(hb_self, row, tc, b)
                  /\ OthersTotal(agg', tc, b) =
                        OthersTotal(agg, tc, b) +
                          (IF HasOpening(row) \/ hb_self.include_unknown_opening
                           THEN SamplesFor(hb_self, row, tc, b) ELSE 0)
                  /\ Cardinality(OthersChanged(agg, agg', tc, b)) <= 1
            /\ SeqSum([k \in 1..5 |->
                          SeqSum([j \in 1..3 |->
                              SamplesFor(hb_self, row,
                                         << <<"B", "L", "I", "T", "Z">>, <<"R", "A", "P", "I", "D">>, <<"B", "U", "L", "L", "E", "T">> >>[j],
                                         << "0-500", "500-1000", "1000-1500", "1500-2000", "2000+" >>[k])])])
                  <= 2

AllCoversOthers ==
    \A tc \in ALLOWED_TIME_CONTROLS : \A b \in FiveBrackets :
        AllTotal(agg, tc, b) >= OthersTotal(agg, tc, b)

AnyRow(row) == TRUE

\* the group of the row is not filed under the name of the pseudo-group
NotFiledAsAll(row) == normalize_opening(hb_self, row.opening)[2] # GroupAll

\* C30: each accepted sample adds exactly 1 to the total of "All" of its
\* (time_control, bracket) and at most 1 to exactly one other group of the
\* same (time_control, bracket); the total of "All" is at least the sum of
\* the totals of the other groups, the two growing together when the row
\* has an opening or include_unknown_opening is set; a row gives "All" at
\* most two samples, one per color, each under that player's own bracket
C30_AllCountsEverySampleOnce ==
    [](hb_pc = "rows" => AllCoversOthers) /\ [][RowStepOK(AnyRow)]_vars

\* the same for the rows whose opening group is not itself named "All"
HeatAllCountsOtherNamesOnce ==
    [](hb_pc = "rows" => AllCoversOthers) /\ [][RowStepOK(NotFiledAsAll)]_vars

\* a row whose players fall in two brackets gave one sample to "All" and
\* one to its opening in each
HeatTwoSamplesWitness ==
    /\ hb_pc = "rows" /\ hb_i = 1
    /\ AllTotal(agg, <<"B", "L", "I", "T", "Z">>, "1500-2000") = 1
    /\ AllTotal(agg, <<"B", "L", "I", "T", "Z">>, "1000-1500") = 1
    /\ OthersTotal(agg, <<"B", "L", "I", "T", "Z">>, "1500-2000") = 1
    /\ OthersTotal(agg, <<"B", "L", "I", "T", "Z">>, "1000-1500") = 1

====
